---- MODULE Spec2Model ----
(***************************************************************************)
(* Track connectivity, train motion and level-crossing logic of the model  *)
(* railway builder (src/main.js).                                          *)
(*                                                                         *)
(* Units.  Progress is kept as an integer number of hundredths of a world  *)
(* unit, so one cell (CELL_SIZE world units) is One = 100 * CELL_SIZE      *)
(* progress units and a spacing of s world units is 100 * s progress units *)
(* (spacing / CELL_SIZE cells).  Time is kept in units of 1/300 s, so that *)
(* the speed of 1.5 cells/s is TRAIN_SPEED = 1 progress unit per time      *)
(* unit; the frame clamp of 0.1 s is 30, the crossing grace period of      *)
(* 1.0 s is 300 and the blink period of 0.5 s is 150 time units.           *)
(***************************************************************************)
EXTENDS Integers, Sequences, FiniteSets, TLC

VARIABLES grid, trains, crossings, isPlaying, edits, clock, probe

vars == <<grid, trains, crossings, isPlaying, edits, clock, probe>>

----------------------------------------------------------------------------
(* Bounds of the model *)

GRID_SIZE == 3
MaxEdits == 1
MaxTrains == 1
MaxLayoutEdits == 5
MaxCars == 2
MaxClock == 32

(* Program constants *)

CELL_SIZE == 2
UP == 0
RIGHT == 1
DOWN == 2
LEFT == 3
SEGMENT_SPACING == 90
ENGINE_TO_CAR_SPACING == 105
TRAIN_SPEED == 1
MAX_DELTA == 30
GRACE_TIME == 300
BLINK_TIME == 150

One == 100 * CELL_SIZE

\* one second in time units (the frame clamp is a tenth of a second)
Second == 10 * MAX_DELTA

Dirs == {UP, RIGHT, DOWN, LEFT}

Deltas == {0, MAX_DELTA}

Idx == 0 .. (GRID_SIZE - 1)

\* cells the track tools are applied to
EditCells == {<<0, 0>>, <<0, 1>>, <<0, 2>>, <<1, 2>>}

Cells == Idx \X Idx

StraightTypes == {"straight-h", "straight-v"}

CurveTypes == {"curve-tl", "curve-tr", "curve-bl", "curve-br"}

CrossingTypes == {"crossing-h", "crossing-v"}

TunnelTypes == {"tunnel-h", "tunnel-v"}

TrackTypes == StraightTypes \cup CurveTypes \cup CrossingTypes \cup TunnelTypes

----------------------------------------------------------------------------
(* Grid store *)

\* { kind: null }
EmptyCell ==
    [kind |-> "none", trackType |-> "none", mesh |-> 0,
     crossingRow |-> -1, crossingCol |-> -1, part |-> "none"]

\* { kind: 'track', trackType, mesh } as written by placeTrackPiece / placeTunnel
TrackCell(trackType) ==
    [kind |-> "track", trackType |-> trackType, mesh |-> 0,
     crossingRow |-> -1, crossingCol |-> -1, part |-> "none"]

\* one of the two cells written by placeCrossing
CrossingCell(trackType, mesh, row, col, part) ==
    [kind |-> "track", trackType |-> trackType, mesh |-> mesh,
     crossingRow |-> row, crossingCol |-> col, part |-> part]

InGrid(row, col) == row \in Idx /\ col \in Idx

\* grid[row][col] as the tests "!cell || cell.kind !== 'track'" see it when
\* grid[row] exists: a column outside the row array reads as undefined
IsTrack(g, row, col) == InGrid(row, col) /\ g[<<row, col>>].kind = "track"

initGrid == [c \in Cells |-> EmptyCell]

\* getTrackAt(row, col): the cell, or null off-grid / without track
getTrackAt(g, row, col) ==
    IF row < 0 \/ row >= GRID_SIZE \/ col < 0 \/ col >= GRID_SIZE
    THEN [ok |-> FALSE]
    ELSE IF g[<<row, col>>].kind = "track"
         THEN [ok |-> TRUE, trackType |-> g[<<row, col>>].trackType]
         ELSE [ok |-> FALSE]

----------------------------------------------------------------------------
(* Connectivity algebra *)

NoState == [ok |-> FALSE]

\* exitDirOf with the curve-bl branch for RIGHT exiting upwards
exitDirOf_swapped(trackType, enterDir) ==
    IF trackType \in {"straight-h", "crossing-h", "tunnel-h"}
    THEN (IF enterDir = RIGHT THEN RIGHT
          ELSE IF enterDir = LEFT THEN LEFT ELSE -1)
    ELSE IF trackType \in {"straight-v", "crossing-v", "tunnel-v"}
    THEN (IF enterDir = DOWN THEN DOWN
          ELSE IF enterDir = UP THEN UP ELSE -1)
    ELSE IF trackType = "curve-tl"
    THEN (IF enterDir = DOWN THEN LEFT
          ELSE IF enterDir = RIGHT THEN UP ELSE -1)
    ELSE IF trackType = "curve-tr"
    THEN (IF enterDir = DOWN THEN RIGHT
          ELSE IF enterDir = LEFT THEN UP ELSE -1)
    ELSE IF trackType = "curve-bl"
    THEN (IF enterDir = UP THEN LEFT
          ELSE IF enterDir = RIGHT THEN UP ELSE -1)
    ELSE IF trackType = "curve-br"
    THEN (IF enterDir = UP THEN RIGHT
          ELSE IF enterDir = LEFT THEN DOWN ELSE -1)
    ELSE -1

\* the exit direction chosen by the if-chain of getNextState; -1 is
\* "exitDir === null"
exitDirOf(trackType, enterDir) ==
    IF trackType \in {"straight-h", "crossing-h", "tunnel-h"}
    THEN (IF enterDir = RIGHT THEN RIGHT
          ELSE IF enterDir = LEFT THEN LEFT ELSE -1)
    ELSE IF trackType \in {"straight-v", "crossing-v", "tunnel-v"}
    THEN (IF enterDir = DOWN THEN DOWN
          ELSE IF enterDir = UP THEN UP ELSE -1)
    ELSE IF trackType = "curve-tl"
    THEN (IF enterDir = DOWN THEN LEFT
          ELSE IF enterDir = RIGHT THEN UP ELSE -1)
    ELSE IF trackType = "curve-tr"
    THEN (IF enterDir = DOWN THEN RIGHT
          ELSE IF enterDir = LEFT THEN UP ELSE -1)
    ELSE IF trackType = "curve-bl"
    THEN (IF enterDir = UP THEN LEFT
          ELSE IF enterDir = RIGHT THEN DOWN ELSE -1)
    ELSE IF trackType = "curve-br"
    THEN (IF enterDir = UP THEN RIGHT
          ELSE IF enterDir = LEFT THEN DOWN ELSE -1)
    ELSE -1

\* getNextState that lets a piece be crossed straight through in a direction
\* it does not accept
getNextState_passThrough(row, col, enterDir, trackType) ==
    LET accepted == exitDirOf(trackType, enterDir)
        exitDir == IF accepted = -1 THEN enterDir ELSE accepted
        nextRow == IF exitDir = UP THEN row - 1
                   ELSE IF exitDir = DOWN THEN row + 1 ELSE row
        nextCol == IF exitDir = LEFT THEN col - 1
                   ELSE IF exitDir = RIGHT THEN col + 1 ELSE col
    IN  [ok |-> TRUE, row |-> nextRow, col |-> nextCol,
         exitDir |-> exitDir, nextEnterDir |-> exitDir]

getNextState(row, col, enterDir, trackType) ==
    LET exitDir == exitDirOf(trackType, enterDir)
        nextRow == IF exitDir = UP THEN row - 1
                   ELSE IF exitDir = DOWN THEN row + 1 ELSE row
        nextCol == IF exitDir = LEFT THEN col - 1
                   ELSE IF exitDir = RIGHT THEN col + 1 ELSE col
    IN  IF exitDir = -1
        THEN NoState
        ELSE [ok |-> TRUE, row |-> nextRow, col |-> nextCol,
              exitDir |-> exitDir, nextEnterDir |-> exitDir]

\* prevEnterDirOf with a wrong reverse entry for curve-tr
prevEnterDirOf_wrongTable(trackType, prevExitDir) ==
    IF trackType \in {"straight-h", "crossing-h", "tunnel-h"}
    THEN prevExitDir
    ELSE IF trackType \in {"straight-v", "crossing-v", "tunnel-v"}
    THEN prevExitDir
    ELSE IF trackType = "curve-tl"
    THEN (IF prevExitDir = LEFT THEN DOWN
          ELSE IF prevExitDir = UP THEN RIGHT ELSE -1)
    ELSE IF trackType = "curve-tr"
    THEN (IF prevExitDir = RIGHT THEN DOWN
          ELSE IF prevExitDir = UP THEN RIGHT ELSE -1)
    ELSE IF trackType = "curve-bl"
    THEN (IF prevExitDir = LEFT THEN UP
          ELSE IF prevExitDir = DOWN THEN RIGHT ELSE -1)
    ELSE IF trackType = "curve-br"
    THEN (IF prevExitDir = RIGHT THEN UP
          ELSE IF prevExitDir = DOWN THEN LEFT ELSE -1)
    ELSE -1

\* the enterDir of the previous cell recovered by getPreviousState from its
\* piece and the direction it was left in; -1 is "prevEnterDir === null"
prevEnterDirOf(trackType, prevExitDir) ==
    IF trackType \in {"straight-h", "crossing-h", "tunnel-h"}
    THEN prevExitDir
    ELSE IF trackType \in {"straight-v", "crossing-v", "tunnel-v"}
    THEN prevExitDir
    ELSE IF trackType = "curve-tl"
    THEN (IF prevExitDir = LEFT THEN DOWN
          ELSE IF prevExitDir = UP THEN RIGHT ELSE -1)
    ELSE IF trackType = "curve-tr"
    THEN (IF prevExitDir = RIGHT THEN DOWN
          ELSE IF prevExitDir = UP THEN LEFT ELSE -1)
    ELSE IF trackType = "curve-bl"
    THEN (IF prevExitDir = LEFT THEN UP
          ELSE IF prevExitDir = DOWN THEN RIGHT ELSE -1)
    ELSE IF trackType = "curve-br"
    THEN (IF prevExitDir = RIGHT THEN UP
          ELSE IF prevExitDir = DOWN THEN LEFT ELSE -1)
    ELSE -1

getPreviousState(g, row, col, enterDir) ==
    LET prevRow == IF enterDir = UP THEN row + 1
                   ELSE IF enterDir = DOWN THEN row - 1 ELSE row
        prevCol == IF enterDir = LEFT THEN col + 1
                   ELSE IF enterDir = RIGHT THEN col - 1 ELSE col
        prevExitDir == enterDir
    IN  IF prevRow < 0 \/ prevRow >= GRID_SIZE \/ prevCol < 0 \/ prevCol >= GRID_SIZE
        THEN NoState
        ELSE IF g[<<prevRow, prevCol>>].kind # "track"
        THEN NoState
        ELSE
          LET prevEnterDir == prevEnterDirOf(g[<<prevRow, prevCol>>].trackType,
                                             prevExitDir)
          IN  IF prevEnterDir = -1
              THEN NoState
              ELSE [ok |-> TRUE, row |-> prevRow, col |-> prevCol,
                    enterDir |-> prevEnterDir, dir |-> prevExitDir]

----------------------------------------------------------------------------
(* Train / consist model *)

Segment(row, col, dir, enterDir, progress) ==
    [row |-> row, col |-> col, dir |-> dir, enterDir |-> enterDir,
     progress |-> progress]

\* targetDistanceBehind with a spacing of one and a quarter cells
targetDistanceBehind_long(segmentIndex) == One + One \div 4

\* spacing / CELL_SIZE in cell units, i.e. 100 * spacing progress units;
\* segmentIndex is the 0-based index of the follower in train.segments
targetDistanceBehind(segmentIndex) ==
    IF segmentIndex = 1 THEN ENGINE_TO_CAR_SPACING ELSE SEGMENT_SPACING

\* The loop "while (targetProgress < 0)" shared by followLeadSegment and
\* addCarToTrain.  Result: ok = FALSE when getPreviousState returned null
\* (the state of the walk at that point is reported), else the target state.
RECURSIVE stepBack(_, _, _, _, _, _)
stepBack(g, targetProgress, targetRow, targetCol, targetEnterDir, targetDir) ==
    IF targetProgress < 0
    THEN LET prevState == getPreviousState(g, targetRow, targetCol, targetEnterDir)
         IN  IF ~prevState.ok
             THEN [ok |-> FALSE,
                   seg |-> Segment(targetRow, targetCol, targetDir, targetEnterDir,
                                   targetProgress + One)]
             ELSE stepBack(g, targetProgress + One, prevState.row, prevState.col,
                           prevState.enterDir, prevState.dir)
    ELSE [ok |-> TRUE,
          seg |-> Segment(targetRow, targetCol, targetDir, targetEnterDir,
                          targetProgress)]

\* the number of times the body of "while (targetProgress < 0)" is entered,
\* the pass that leaves on a null getPreviousState included
RECURSIVE backwardSteps(_, _, _, _, _)
backwardSteps(g, targetProgress, targetRow, targetCol, targetEnterDir) ==
    IF targetProgress < 0
    THEN LET prevState == getPreviousState(g, targetRow, targetCol, targetEnterDir)
         IN  IF ~prevState.ok
             THEN 1
             ELSE 1 + backwardSteps(g, targetProgress + One, prevState.row,
                                    prevState.col, prevState.enterDir)
    ELSE 0

\* followLeadSegment that never steps back into the previous cell
followLeadSegment_noWrap(g, segment, leadSegment, segmentIndex) ==
    Segment(leadSegment.row, leadSegment.col, leadSegment.dir, leadSegment.enterDir,
            leadSegment.progress - targetDistanceBehind(segmentIndex))

\* followLeadSegment: the follower's new state
followLeadSegment(g, segment, leadSegment, segmentIndex) ==
    LET walk == stepBack(g, leadSegment.progress - targetDistanceBehind(segmentIndex),
                         leadSegment.row, leadSegment.col,
                         leadSegment.enterDir, leadSegment.dir)
    IN  IF walk.ok THEN walk.seg ELSE segment

\* addCarToTrain without the clamp to progress 0 when no predecessor exists
addCarToTrain_noClamp(g, train) ==
    LET lastSegment == train.segments[Len(train.segments)]
        segmentIndex == Len(train.segments)
        walk == stepBack(g, lastSegment.progress - targetDistanceBehind(segmentIndex),
                         lastSegment.row, lastSegment.col,
                         lastSegment.enterDir, lastSegment.dir)
    IN  [train EXCEPT !.segments = Append(@, walk.seg)]

\* addCarToTrain: the train with the new car appended
addCarToTrain(g, train) ==
    LET lastSegment == train.segments[Len(train.segments)]
        segmentIndex == Len(train.segments)
        walk == stepBack(g, lastSegment.progress - targetDistanceBehind(segmentIndex),
                         lastSegment.row, lastSegment.col,
                         lastSegment.enterDir, lastSegment.dir)
        newSegment == IF walk.ok THEN walk.seg
                      ELSE [walk.seg EXCEPT !.progress = 0]
    IN  [train EXCEPT !.segments = Append(@, newSegment)]

\* moveSegmentToNextCell that stops at the end of track without pinning progress
moveSegmentToNextCell_noPin(g, segment, train) ==
    LET trackType == g[<<segment.row, segment.col>>].trackType
        next == getNextState(segment.row, segment.col, segment.enterDir, trackType)
    IN  IF ~next.ok
        THEN [seg |-> [segment EXCEPT !.progress = One], stopped |-> TRUE,
              threw |-> FALSE]
        ELSE IF next.row < 0 \/ next.row >= GRID_SIZE
        THEN [seg |-> segment, stopped |-> train.stopped, threw |-> TRUE]
        ELSE IF ~IsTrack(g, next.row, next.col)
        THEN [seg |-> segment, stopped |-> TRUE,
              threw |-> FALSE]
        ELSE [seg |-> [segment EXCEPT !.row = next.row, !.col = next.col,
                                      !.dir = next.exitDir,
                                      !.enterDir = next.nextEnterDir],
              stopped |-> train.stopped, threw |-> FALSE]

\* moveSegmentToNextCell treating every next cell as the end of the track
moveSegmentToNextCell_endOfLine(g, segment, train) ==
    [seg |-> [segment EXCEPT !.progress = One], stopped |-> TRUE, threw |-> FALSE]

\* moveSegmentToNextCell(segment, train), called with segment.progress = 0.
\* threw = TRUE models the TypeError of grid[next.row][next.col] when
\* next.row is outside the outer array (grid[next.row] is undefined).
moveSegmentToNextCell(g, segment, train) ==
    LET trackType == g[<<segment.row, segment.col>>].trackType
        next == getNextState(segment.row, segment.col, segment.enterDir, trackType)
    IN  IF ~next.ok
        THEN [seg |-> [segment EXCEPT !.progress = One], stopped |-> TRUE,
              threw |-> FALSE]
        ELSE IF next.row < 0 \/ next.row >= GRID_SIZE
        THEN [seg |-> segment, stopped |-> train.stopped, threw |-> TRUE]
        ELSE IF ~IsTrack(g, next.row, next.col)
        THEN [seg |-> [segment EXCEPT !.progress = One], stopped |-> TRUE,
              threw |-> FALSE]
        ELSE [seg |-> [segment EXCEPT !.row = next.row, !.col = next.col,
                                      !.dir = next.exitDir,
                                      !.enterDir = next.nextEnterDir],
              stopped |-> train.stopped, threw |-> FALSE]

\* followAll that keeps only the engine
followAll_engineOnly(g, segments, i) == <<segments[1]>>

\* the loop over the cars in stepTrains, from 1-based position i on
RECURSIVE followAll(_, _, _)
followAll(g, segments, i) ==
    IF i > Len(segments)
    THEN segments
    ELSE followAll(g,
                   [segments EXCEPT ![i] =
                       followLeadSegment(g, segments[i], segments[i - 1], i - 1)],
                   i + 1)

\* stepTrain without the early return for a stopped train
stepTrain_noStopCheck(g, playing, train, delta) ==
    LET engineSeg == train.segments[1]
    IN  IF ~playing THEN [train |-> train, threw |-> FALSE]
        ELSE IF g[<<engineSeg.row, engineSeg.col>>].kind # "track"
        THEN [train |-> train, threw |-> FALSE]
        ELSE
          LET advanced == [engineSeg EXCEPT !.progress = @ + train.speed * delta]
          IN  IF advanced.progress >= One
              THEN LET mv == moveSegmentToNextCell(g, [advanced EXCEPT !.progress = 0],
                                                   train)
                   IN  IF mv.threw
                       THEN [train |-> [train EXCEPT !.segments[1] = mv.seg],
                             threw |-> TRUE]
                       ELSE [train |->
                               [train EXCEPT
                                  !.segments = followAll(g, [@ EXCEPT ![1] = mv.seg], 2),
                                  !.stopped = mv.stopped],
                             threw |-> FALSE]
              ELSE [train |->
                      [train EXCEPT
                         !.segments = followAll(g, [@ EXCEPT ![1] = advanced], 2)],
                    threw |-> FALSE]

\* the body of trains.forEach in stepTrains for one train
stepTrain(g, playing, train, delta) ==
    LET engineSeg == train.segments[1]
    IN  IF ~playing THEN [train |-> train, threw |-> FALSE]
        ELSE IF train.stopped THEN [train |-> train, threw |-> FALSE]
        ELSE IF g[<<engineSeg.row, engineSeg.col>>].kind # "track"
        THEN [train |-> train, threw |-> FALSE]
        ELSE
          LET advanced == [engineSeg EXCEPT !.progress = @ + train.speed * delta]
          IN  IF advanced.progress >= One
              THEN LET mv == moveSegmentToNextCell(g, [advanced EXCEPT !.progress = 0],
                                                   train)
                   IN  IF mv.threw
                       THEN [train |-> [train EXCEPT !.segments[1] = mv.seg],
                             threw |-> TRUE]
                       ELSE [train |->
                               [train EXCEPT
                                  !.segments = followAll(g, [@ EXCEPT ![1] = mv.seg], 2),
                                  !.stopped = mv.stopped],
                             threw |-> FALSE]
              ELSE [train |->
                      [train EXCEPT
                         !.segments = followAll(g, [@ EXCEPT ![1] = advanced], 2)],
                    threw |-> FALSE]

\* stepTrains(delta): trains.forEach from 1-based position i on; an exception
\* leaves the remaining trains untouched
RECURSIVE stepTrains(_, _, _, _, _)
stepTrains(g, playing, ts, delta, i) ==
    IF i > Len(ts)
    THEN [trains |-> ts, threw |-> FALSE]
    ELSE LET r == stepTrain(g, playing, ts[i], delta)
         IN  IF r.threw
             THEN [trains |-> [ts EXCEPT ![i] = r.train], threw |-> TRUE]
             ELSE stepTrains(g, playing, [ts EXCEPT ![i] = r.train], delta, i + 1)

----------------------------------------------------------------------------
(* Crossing state machine *)

crossingRow2(crossing) ==
    IF crossing.horizontal THEN crossing.row ELSE crossing.row + 1

crossingCol2(crossing) ==
    IF crossing.horizontal THEN crossing.col + 1 ELSE crossing.col

\* trainOnCrossing that also counts the segments of stopped trains
trainOnCrossing_anyTrain(ts, crossing) ==
    \E i \in DOMAIN ts :
       \E k \in DOMAIN ts[i].segments :
            LET segment == ts[i].segments[k]
            IN  \/ (segment.row = crossing.row /\ segment.col = crossing.col)
                \/ (segment.row = crossingRow2(crossing)
                    /\ segment.col = crossingCol2(crossing))

\* trainOnCrossing in updateCrossings
trainOnCrossing(ts, crossing) ==
    \E i \in DOMAIN ts :
       /\ ~ts[i].stopped
       /\ \E k \in DOMAIN ts[i].segments :
            LET segment == ts[i].segments[k]
            IN  \/ (segment.row = crossing.row /\ segment.col = crossing.col)
                \/ (segment.row = crossingRow2(crossing)
                    /\ segment.col = crossingCol2(crossing))

\* the body of crossings.forEach in updateCrossings (state part)
updateCrossing(ts, crossing, delta) ==
    LET c1 == IF trainOnCrossing(ts, crossing)
              THEN [crossing EXCEPT !.active = TRUE, !.deactivateTimer = 0]
              ELSE IF crossing.active
              THEN (IF crossing.deactivateTimer + delta >= GRACE_TIME
                    THEN [crossing EXCEPT !.active = FALSE, !.deactivateTimer = 0]
                    ELSE [crossing EXCEPT !.deactivateTimer = @ + delta])
              ELSE crossing
    IN  IF c1.active
        THEN (IF c1.lightTimer + delta >= BLINK_TIME
              THEN [c1 EXCEPT !.lightTimer = 0]
              ELSE [c1 EXCEPT !.lightTimer = @ + delta])
        ELSE [c1 EXCEPT !.lightTimer = 0]

\* updateCrossings without the return while paused
updateCrossings_noPauseCheck(playing, ts, cs, delta) ==
    [i \in DOMAIN cs |-> updateCrossing(ts, cs[i], delta)]

updateCrossings(playing, ts, cs, delta) ==
    IF ~playing THEN cs
    ELSE [i \in DOMAIN cs |-> updateCrossing(ts, cs[i], delta)]

----------------------------------------------------------------------------
(* Placement engine.  The operations work on the record                    *)
(* [grid, trains, crossings] of the module-level variables they mutate.    *)

World(g, ts, cs) == [grid |-> g, trains |-> ts, crossings |-> cs]

\* EngineAt that matches a train by any of its segments
EngineAt_anySegment(train, row, col) ==
    \E k \in DOMAIN train.segments :
       train.segments[k].row = row /\ train.segments[k].col = col

EngineAt(train, row, col) ==
    train.segments[1].row = row /\ train.segments[1].col = col

RemoveAt(seq, i) ==
    [k \in 1 .. (Len(seq) - 1) |-> IF k < i THEN seq[k] ELSE seq[k + 1]]

\* identity of a newly created crossing mesh: any object not referenced yet
freshMesh(w) ==
    CHOOSE m \in 1 .. (Len(w.crossings) + Cardinality(Cells) + 1) :
       /\ \A i \in DOMAIN w.crossings : w.crossings[i].mesh # m
       /\ \A c \in Cells : w.grid[c].mesh # m
       /\ \A n \in 1 .. (m - 1) :
             \/ \E i \in DOMAIN w.crossings : w.crossings[i].mesh = n
             \/ \E c \in Cells : w.grid[c].mesh = n

\* identity of a newly created train (its engine mesh)
freshTrain(ts) ==
    CHOOSE m \in 1 .. (Len(ts) + 1) :
       /\ \A i \in DOMAIN ts : ts[i].id # m
       /\ \A n \in 1 .. (m - 1) : \E i \in DOMAIN ts : ts[i].id = n

placeTrackPiece(w, row, col, trackType) ==
    [w EXCEPT !.grid[<<row, col>>] = TrackCell(trackType)]

\* findNeighborTrack probing the neighbours in the order LEFT, DOWN, RIGHT, UP
findNeighborTrack_leftFirst(g, row, col) ==
    IF IsTrack(g, row, col - 1) THEN [ok |-> TRUE, row |-> row, col |-> col - 1, dir |-> RIGHT]
    ELSE IF IsTrack(g, row + 1, col) THEN [ok |-> TRUE, row |-> row + 1, col |-> col, dir |-> UP]
    ELSE IF IsTrack(g, row, col + 1) THEN [ok |-> TRUE, row |-> row, col |-> col + 1, dir |-> LEFT]
    ELSE IF IsTrack(g, row - 1, col) THEN [ok |-> TRUE, row |-> row - 1, col |-> col, dir |-> DOWN]
    ELSE [ok |-> FALSE]

\* findNeighborTrack(row, col): the first track neighbour in the order
\* UP, RIGHT, DOWN, LEFT with its incoming direction, or null
findNeighborTrack(g, row, col) ==
    IF IsTrack(g, row - 1, col) THEN [ok |-> TRUE, row |-> row - 1, col |-> col, dir |-> DOWN]
    ELSE IF IsTrack(g, row, col + 1) THEN [ok |-> TRUE, row |-> row, col |-> col + 1, dir |-> LEFT]
    ELSE IF IsTrack(g, row + 1, col) THEN [ok |-> TRUE, row |-> row + 1, col |-> col, dir |-> UP]
    ELSE IF IsTrack(g, row, col - 1) THEN [ok |-> TRUE, row |-> row, col |-> col - 1, dir |-> RIGHT]
    ELSE [ok |-> FALSE]

\* nextCurve stepping through the variants in the opposite order
nextCurve_backwards(trackType) ==
    IF trackType = "curve-tl" THEN "curve-br"
    ELSE IF trackType = "curve-br" THEN "curve-bl"
    ELSE IF trackType = "curve-bl" THEN "curve-tr"
    ELSE "curve-tl"

nextCurve(trackType) ==
    IF trackType = "curve-tl" THEN "curve-tr"
    ELSE IF trackType = "curve-tr" THEN "curve-bl"
    ELSE IF trackType = "curve-bl" THEN "curve-br"
    ELSE "curve-tl"

\* placeTrackSmart whose straight mode also replaces a non-straight piece
placeTrackSmart_overwrite(w, row, col, mode) ==
    LET cell == w.grid[<<row, col>>]
    IN  IF mode = "straight"
        THEN IF cell.kind = "track" /\ cell.trackType \in StraightTypes
             THEN placeTrackPiece(w, row, col,
                     IF cell.trackType = "straight-h" THEN "straight-v"
                     ELSE "straight-h")
             ELSE LET neighbor == findNeighborTrack(w.grid, row, col)
                  IN  IF ~neighbor.ok
                      THEN placeTrackPiece(w, row, col, "straight-h")
                      ELSE IF neighbor.dir = LEFT \/ neighbor.dir = RIGHT
                      THEN placeTrackPiece(w, row, col, "straight-h")
                      ELSE placeTrackPiece(w, row, col, "straight-v")
        ELSE IF mode = "curve"
        THEN IF cell.kind = "track" /\ cell.trackType \in CurveTypes
             THEN placeTrackPiece(w, row, col, nextCurve(cell.trackType))
             ELSE placeTrackPiece(w, row, col, "curve-tl")
        ELSE w

placeTrackSmart(w, row, col, mode) ==
    LET cell == w.grid[<<row, col>>]
    IN  IF mode = "straight"
        THEN IF cell.kind = "track" /\ cell.trackType \in StraightTypes
             THEN placeTrackPiece(w, row, col,
                     IF cell.trackType = "straight-h" THEN "straight-v"
                     ELSE "straight-h")
             ELSE IF cell.kind = "track"
             THEN w
             ELSE LET neighbor == findNeighborTrack(w.grid, row, col)
                  IN  IF ~neighbor.ok
                      THEN placeTrackPiece(w, row, col, "straight-h")
                      ELSE IF neighbor.dir = LEFT \/ neighbor.dir = RIGHT
                      THEN placeTrackPiece(w, row, col, "straight-h")
                      ELSE placeTrackPiece(w, row, col, "straight-v")
        ELSE IF mode = "curve"
        THEN IF cell.kind = "track" /\ cell.trackType \in CurveTypes
             THEN placeTrackPiece(w, row, col, nextCurve(cell.trackType))
             ELSE placeTrackPiece(w, row, col, "curve-tl")
        ELSE w

\* deleteTrack that clears only the start cell of a crossing
deleteTrack_startOnly(w, row, col) ==
    LET cell == w.grid[<<row, col>>]
    IN  IF cell.kind # "track"
        THEN w
        ELSE IF cell.trackType \in CrossingTypes
        THEN LET isHorizontal == cell.trackType = "crossing-h"
                 startRow == IF cell.crossingRow # -1 THEN cell.crossingRow ELSE row
                 startCol == IF cell.crossingCol # -1 THEN cell.crossingCol ELSE col
                 found == {i \in DOMAIN w.crossings :
                             /\ w.crossings[i].row = startRow
                             /\ w.crossings[i].col = startCol
                             /\ w.crossings[i].mesh = cell.mesh}
                 cs == IF found = {} THEN w.crossings
                       ELSE RemoveAt(w.crossings,
                                     CHOOSE i \in found : \A j \in found : i <= j)
                 endRow == IF isHorizontal THEN startRow ELSE startRow + 1
                 endCol == IF isHorizontal THEN startCol + 1 ELSE startCol
                 g1 == [w.grid EXCEPT ![<<startRow, startCol>>] = EmptyCell]
                 keep(train) == ~(EngineAt(train, startRow, startCol)
                                  \/ EngineAt(train, endRow, endCol))
             IN  World(g1, SelectSeq(w.trains, keep), cs)
        ELSE LET keep(train) == ~EngineAt(train, row, col)
             IN  World([w.grid EXCEPT ![<<row, col>>] = EmptyCell],
                       SelectSeq(w.trains, keep), w.crossings)

\* deleteTrack emptying the cells without removing the trains on them
deleteTrack_keepTrains(w, row, col) ==
    LET cell == w.grid[<<row, col>>]
    IN  IF cell.kind # "track"
        THEN w
        ELSE [w EXCEPT !.grid[<<row, col>>] = EmptyCell]

deleteTrack(w, row, col) ==
    LET cell == w.grid[<<row, col>>]
    IN  IF cell.kind # "track"
        THEN w
        ELSE IF cell.trackType \in CrossingTypes
        THEN LET isHorizontal == cell.trackType = "crossing-h"
                 startRow == IF cell.crossingRow # -1 THEN cell.crossingRow ELSE row
                 startCol == IF cell.crossingCol # -1 THEN cell.crossingCol ELSE col
                 found == {i \in DOMAIN w.crossings :
                             /\ w.crossings[i].row = startRow
                             /\ w.crossings[i].col = startCol
                             /\ w.crossings[i].mesh = cell.mesh}
                 cs == IF found = {} THEN w.crossings
                       ELSE RemoveAt(w.crossings,
                                     CHOOSE i \in found : \A j \in found : i <= j)
                 endRow == IF isHorizontal THEN startRow ELSE startRow + 1
                 endCol == IF isHorizontal THEN startCol + 1 ELSE startCol
                 g1 == [w.grid EXCEPT ![<<startRow, startCol>>] = EmptyCell]
                 g2 == IF endRow < GRID_SIZE /\ endCol < GRID_SIZE
                       THEN [g1 EXCEPT ![<<endRow, endCol>>] = EmptyCell]
                       ELSE g1
                 keep(train) == ~(EngineAt(train, startRow, startCol)
                                  \/ EngineAt(train, endRow, endCol))
             IN  World(g2, SelectSeq(w.trains, keep), cs)
        ELSE LET keep(train) == ~EngineAt(train, row, col)
             IN  World([w.grid EXCEPT ![<<row, col>>] = EmptyCell],
                       SelectSeq(w.trains, keep), w.crossings)

\* trackType.includes('-v') / trackType.includes('-h') of a neighbour cell
includesSuffix(t, suffix) ==
    /\ t.ok
    /\ t.trackType \in (IF suffix = "-v"
                        THEN {"straight-v", "crossing-v", "tunnel-v"}
                        ELSE {"straight-h", "crossing-h", "tunnel-h"})

\* A new crossing entity as pushed by placeCrossing
Crossing(row, col, mesh, horizontal) ==
    [row |-> row, col |-> col, mesh |-> mesh, active |-> FALSE,
     horizontal |-> horizontal, lightTimer |-> 0, deactivateTimer |-> 0]

\* placeCrossing without the return on a second cell that holds a crossing
placeCrossing_overCrossing(w, row, col) ==
    LET north == getTrackAt(w.grid, row - 1, col)
        south == getTrackAt(w.grid, row + 1, col)
        east == getTrackAt(w.grid, row, col + 1)
        west == getTrackAt(w.grid, row, col - 1)
        hasVertical == includesSuffix(north, "-v") \/ includesSuffix(south, "-v")
        hasHorizontal == includesSuffix(east, "-h") \/ includesSuffix(west, "-h")
        horizontal == IF hasHorizontal /\ ~hasVertical THEN TRUE ELSE ~hasVertical
        trackType == IF horizontal THEN "crossing-h" ELSE "crossing-v"
        nextRow == IF horizontal THEN row ELSE row + 1
        nextCol == IF horizontal THEN col + 1 ELSE col
    IN  IF nextRow >= GRID_SIZE \/ nextCol >= GRID_SIZE
        THEN w
        ELSE
          LET w1 == IF w.grid[<<row, col>>].trackType \in CrossingTypes
                    THEN deleteTrack(w, row, col)
                    ELSE w
              w2 == IF w1.grid[<<nextRow, nextCol>>].trackType \in CrossingTypes
                    THEN deleteTrack(w1, nextRow, nextCol)
                    ELSE w1
              mesh == freshMesh(w2)
              g == [w2.grid EXCEPT
                      ![<<row, col>>] = CrossingCell(trackType, mesh, row, col, "start"),
                      ![<<nextRow, nextCol>>] = CrossingCell(trackType, mesh, row, col, "end")]
          IN  World(g, w2.trains,
                    Append(w2.crossings, Crossing(row, col, mesh, horizontal)))

placeCrossing(w, row, col) ==
    LET north == getTrackAt(w.grid, row - 1, col)
        south == getTrackAt(w.grid, row + 1, col)
        east == getTrackAt(w.grid, row, col + 1)
        west == getTrackAt(w.grid, row, col - 1)
        hasVertical == includesSuffix(north, "-v") \/ includesSuffix(south, "-v")
        hasHorizontal == includesSuffix(east, "-h") \/ includesSuffix(west, "-h")
        horizontal == IF hasHorizontal /\ ~hasVertical THEN TRUE ELSE ~hasVertical
        trackType == IF horizontal THEN "crossing-h" ELSE "crossing-v"
        nextRow == IF horizontal THEN row ELSE row + 1
        nextCol == IF horizontal THEN col + 1 ELSE col
    IN  IF nextRow >= GRID_SIZE \/ nextCol >= GRID_SIZE
        THEN w
        ELSE IF w.grid[<<nextRow, nextCol>>].trackType \in CrossingTypes
        THEN w
        ELSE
          \* a crossing in the current cell is deleted as a whole; the second
          \* cell cannot hold a crossing here, so only its mesh is removed
          LET w1 == IF w.grid[<<row, col>>].trackType \in CrossingTypes
                    THEN deleteTrack(w, row, col)
                    ELSE w
              mesh == freshMesh(w1)
              g == [w1.grid EXCEPT
                      ![<<row, col>>] = CrossingCell(trackType, mesh, row, col, "start"),
                      ![<<nextRow, nextCol>>] = CrossingCell(trackType, mesh, row, col, "end")]
          IN  World(g, w1.trains,
                    Append(w1.crossings, Crossing(row, col, mesh, horizontal)))

\* placeTunnel without the test for a straight piece
placeTunnel_anyTrack(w, row, col) ==
    LET cell == w.grid[<<row, col>>]
    IN  IF cell.kind # "track"
        THEN w
        ELSE [w EXCEPT !.grid[<<row, col>>] =
                 TrackCell(IF cell.trackType = "straight-v" THEN "tunnel-v"
                           ELSE "tunnel-h")]

placeTunnel(w, row, col) ==
    LET cell == w.grid[<<row, col>>]
    IN  IF cell.kind # "track"
        THEN w
        ELSE IF cell.trackType # "straight-h" /\ cell.trackType # "straight-v"
        THEN w
        ELSE [w EXCEPT !.grid[<<row, col>>] =
                 TrackCell(IF cell.trackType = "straight-h" THEN "tunnel-h"
                           ELSE "tunnel-v")]

\* initialEnterDir starting horizontal pieces towards the left
initialEnterDir_left(trackType) ==
    IF trackType \in {"straight-v", "crossing-v", "tunnel-v"} THEN DOWN
    ELSE IF trackType \in {"curve-tl", "curve-tr"} THEN DOWN
    ELSE IF trackType \in {"curve-bl", "curve-br"} THEN UP
    ELSE LEFT

\* initial dir / enterDir chosen by placeTrain for a piece
initialEnterDir(trackType) ==
    IF trackType \in {"straight-v", "crossing-v", "tunnel-v"} THEN DOWN
    ELSE IF trackType \in {"curve-tl", "curve-tr"} THEN DOWN
    ELSE IF trackType \in {"curve-bl", "curve-br"} THEN UP
    ELSE RIGHT

\* placeTrain without the test for track in the target cell
placeTrain_anyCell(w, row, col) ==
    LET cell == w.grid[<<row, col>>]
        keep(train) == ~EngineAt(train, row, col)
        kept == SelectSeq(w.trains, keep)
        d == initialEnterDir(cell.trackType)
    IN  [w EXCEPT !.trains =
            Append(kept, [id |-> freshTrain(kept),
                          segments |-> <<Segment(row, col, d, d, 0)>>,
                          speed |-> TRAIN_SPEED,
                          stopped |-> FALSE])]

placeTrain(w, row, col) ==
    LET cell == w.grid[<<row, col>>]
        keep(train) == ~EngineAt(train, row, col)
        kept == SelectSeq(w.trains, keep)
        d == initialEnterDir(cell.trackType)
    IN  IF cell.kind # "track"
        THEN w
        ELSE [w EXCEPT !.trains =
                 Append(kept, [id |-> freshTrain(kept),
                               segments |-> <<Segment(row, col, d, d, 0)>>,
                               speed |-> TRAIN_SPEED,
                               stopped |-> FALSE])]

\* exportLayout(): the tracks in row-major order without the end cells of
\* crossings, from cell number n on
RECURSIVE exportTracks(_, _)
exportTracks(g, n) ==
    IF n >= GRID_SIZE * GRID_SIZE THEN <<>>
    ELSE LET r == n \div GRID_SIZE
             c == n % GRID_SIZE
             cell == g[<<r, c>>]
         IN  (IF cell.kind = "track" /\ cell.part # "end"
              THEN <<[row |-> r, col |-> c, trackType |-> cell.trackType]>>
              ELSE <<>>) \o exportTracks(g, n + 1)

exportLayout(w) ==
    [tracks |-> exportTracks(w.grid, 0),
     trains |-> [i \in DOMAIN w.trains |->
                   [row |-> w.trains[i].segments[1].row,
                    col |-> w.trains[i].segments[1].col,
                    dir |-> w.trains[i].segments[1].dir,
                    enterDir |-> w.trains[i].segments[1].enterDir,
                    cars |-> Len(w.trains[i].segments) - 1]],
     crossings |-> [i \in DOMAIN w.crossings |->
                      [row |-> w.crossings[i].row,
                       col |-> w.crossings[i].col,
                       horizontal |-> w.crossings[i].horizontal]]]

\* the cells loadLayout skips when placing tracks
crossingCells(layoutData) ==
    UNION {{<<layoutData.crossings[i].row, layoutData.crossings[i].col>>,
            IF layoutData.crossings[i].horizontal
            THEN <<layoutData.crossings[i].row, layoutData.crossings[i].col + 1>>
            ELSE <<layoutData.crossings[i].row + 1, layoutData.crossings[i].col>>}
           : i \in DOMAIN layoutData.crossings}

\* layoutData.tracks.forEach from entry k on
RECURSIVE loadTracks(_, _, _, _)
loadTracks(w, tracks, skip, k) ==
    IF k > Len(tracks) THEN w
    ELSE loadTracks(IF <<tracks[k].row, tracks[k].col>> \in skip THEN w
                    ELSE placeTrackPiece(w, tracks[k].row, tracks[k].col,
                                         tracks[k].trackType),
                    tracks, skip, k + 1)

\* layoutData.crossings.forEach from entry k on
RECURSIVE loadCrossings(_, _, _)
loadCrossings(w, entries, k) ==
    IF k > Len(entries) THEN w
    ELSE loadCrossings(placeCrossing(w, entries[k].row, entries[k].col),
                       entries, k + 1)

\* trainData.cars.forEach(carType => addCarToTrain(train, carType))
RECURSIVE addCars(_, _, _)
addCars(g, train, n) ==
    IF n = 0 THEN train ELSE addCars(g, addCarToTrain(g, train), n - 1)

\* one step of layoutData.trains.forEach: placeTrain, then the entry's
\* directions and cars applied to trains[trains.length - 1]
loadTrain(w, trainData) ==
    LET placed == placeTrain(w, trainData.row, trainData.col)
        n == Len(placed.trains)
    IN  IF n = 0 THEN placed
        ELSE LET train == [placed.trains[n] EXCEPT
                              !.segments[1].dir = trainData.dir,
                              !.segments[1].enterDir = trainData.enterDir]
             IN  [placed EXCEPT
                     !.trains[n] = addCars(placed.grid, train, trainData.cars)]

\* layoutData.trains.forEach from entry k on
RECURSIVE loadTrains(_, _, _)
loadTrains(w, entries, k) ==
    IF k > Len(entries) THEN w
    ELSE loadTrains(loadTrain(w, entries[k]), entries, k + 1)

\* loadLayout that keeps the trains and crossings of the state before
loadLayout_noClear(w, layoutData) ==
    LET cleared == [w EXCEPT !.grid = [c \in Cells |-> EmptyCell]]
        withTracks == loadTracks(cleared, layoutData.tracks,
                                 crossingCells(layoutData), 1)
        withCrossings == loadCrossings(withTracks, layoutData.crossings, 1)
    IN  loadTrains(withCrossings, layoutData.trains, 1)

loadLayout(w, layoutData) ==
    LET cleared == [w EXCEPT !.trains = <<>>,
                             !.crossings = <<>>,
                             !.grid = [c \in Cells |-> EmptyCell]]
        withTracks == loadTracks(cleared, layoutData.tracks,
                                 crossingCells(layoutData), 1)
        withCrossings == loadCrossings(withTracks, layoutData.crossings, 1)
    IN  loadTrains(withCrossings, layoutData.trains, 1)

----------------------------------------------------------------------------
(* State machine *)

NoProbe ==
    [stage |-> "none", row |-> 0, col |-> 0, enterDir |-> UP,
     trackType |-> "none", next |-> NoState, prev |-> NoState]

Now == World(grid, trains, crossings)

Becomes(w) ==
    /\ grid' = w.grid
    /\ trains' = w.trains
    /\ crossings' = w.crossings

\* Layouts the tools can build from the empty grid
StripGrid ==
    [c \in Cells |-> IF c[1] = 0 /\ c[2] <= 1 THEN TrackCell("straight-h")
                     ELSE EmptyCell]

LoopGrid ==
    [c \in Cells |-> IF c = <<0, 0>> THEN TrackCell("curve-br")
                     ELSE IF c = <<0, 1>> THEN TrackCell("curve-bl")
                     ELSE IF c = <<1, 0>> THEN TrackCell("curve-tr")
                     ELSE IF c = <<1, 1>> THEN TrackCell("curve-tl")
                     ELSE EmptyCell]

ColumnGrid ==
    [c \in Cells |-> IF c[2] = 2 THEN TrackCell("straight-v") ELSE EmptyCell]

CrossingWorld ==
    placeCrossing(placeTrackPiece(World(initGrid, <<>>, <<>>), 1, 2, "straight-h"),
                  1, 0)

\* a crossing with no track beyond its end cell
CrossingEndWorld ==
    placeCrossing(World(initGrid, <<>>, <<>>), 0, 0)

\* a crossing on the first two cells of row 0 with a straight piece after it
CrossingStripWorld ==
    placeCrossing(placeTrackPiece(World(initGrid, <<>>, <<>>), 0, 2, "straight-h"),
                  0, 0)

InitWorlds ==
    {World(initGrid, <<>>, <<>>), World(StripGrid, <<>>, <<>>),
     World(LoopGrid, <<>>, <<>>), World(ColumnGrid, <<>>, <<>>), CrossingWorld,
     CrossingEndWorld, CrossingStripWorld}

Init ==
    /\ \E w \in InitWorlds : /\ grid = w.grid
                             /\ trains = w.trains
                             /\ crossings = w.crossings
    /\ isPlaying = FALSE
    /\ edits = 0
    /\ clock = 0
    /\ probe = NoProbe

\* play button
TogglePlay ==
    /\ isPlaying' = ~isPlaying
    /\ UNCHANGED <<grid, trains, crossings, edits, clock, probe>>

\* animate(time): stepTrains(delta) then updateCrossings(delta); an exception
\* thrown by stepTrains ends the frame before updateCrossings
Frame(delta) ==
    LET r == stepTrains(grid, isPlaying, trains, delta, 1)
    IN  /\ trains' = r.trains
        /\ crossings' = IF r.threw THEN crossings
                        ELSE updateCrossings(isPlaying, r.trains, crossings, delta)
        /\ UNCHANGED <<grid, isPlaying, edits, probe>>

Tick ==
    \E delta \in Deltas : Frame(delta) /\ UNCHANGED clock

\* handleTap with one of the track tools selected
Edit(w) ==
    /\ edits < MaxEdits
    /\ edits' = edits + 1
    /\ Becomes(w)
    /\ UNCHANGED <<isPlaying, clock, probe>>

TapStraight ==
    \E c \in EditCells : Edit(placeTrackSmart(Now, c[1], c[2], "straight"))

TapCurve ==
    \E c \in EditCells : Edit(placeTrackSmart(Now, c[1], c[2], "curve"))

TapCrossing ==
    \E c \in EditCells : Edit(placeCrossing(Now, c[1], c[2]))

TapTunnel ==
    \E c \in EditCells : Edit(placeTunnel(Now, c[1], c[2]))

TapDeleteTrack ==
    \E c \in EditCells : Edit(deleteTrack(Now, c[1], c[2]))

\* handleTap in delete mode hitting a train
TapDeleteTrain ==
    /\ \E i \in DOMAIN trains : trains' = RemoveAt(trains, i)
    /\ UNCHANGED <<grid, crossings, isPlaying, edits, clock, probe>>

\* handleTap with an engine tool selected
TapEngine ==
    /\ \E c \in Cells :
          LET w == placeTrain(Now, c[1], c[2])
          IN  /\ Len(w.trains) <= MaxTrains
              /\ Becomes(w)
    /\ UNCHANGED <<isPlaying, edits, clock, probe>>

\* handleTap with a car tool selected hitting a train
TapCar ==
    /\ \E i \in DOMAIN trains :
          /\ Len(trains[i].segments) <= MaxCars
          /\ trains' = [trains EXCEPT ![i] = addCarToTrain(grid, trains[i])]
    /\ UNCHANGED <<grid, crossings, isPlaying, edits, clock, probe>>

Next ==
    \/ TogglePlay
    \/ Tick
    \/ TapStraight
    \/ TapCurve
    \/ TapCrossing
    \/ TapTunnel
    \/ TapDeleteTrack
    \/ TapDeleteTrain
    \/ TapEngine
    \/ TapCar

Spec == Init /\ [][Next]_vars

TypeOK ==
    /\ isPlaying \in BOOLEAN
    /\ edits \in 0 .. (IF MaxEdits > MaxLayoutEdits THEN MaxEdits ELSE MaxLayoutEdits)
    /\ \A c \in Cells : grid[c].kind \in {"none", "track"}
    /\ \A i \in DOMAIN trains :
          \A k \in DOMAIN trains[i].segments :
             trains[i].segments[k].progress \in 0 .. One

----------------------------------------------------------------------------
(* Scenario: one engine on a strip of straight-h pieces, ticked at the      *)
(* frame clamp of 0.1 s; clock counts the ticks and probe remembers where   *)
(* the engine was placed.                                                   *)

StripWorld(row, first, last) ==
    World([c \in Cells |-> IF c[1] = row /\ c[2] >= first /\ c[2] <= last
                           THEN TrackCell("straight-h") ELSE EmptyCell],
          <<>>, <<>>)

ScenarioInit ==
    /\ \E row \in Idx, first \in Idx, last \in Idx, col \in Idx :
          /\ first <= col /\ col <= last
          /\ LET w == placeTrain(StripWorld(row, first, last), row, col)
             IN  /\ grid = w.grid
                 /\ trains = w.trains
                 /\ crossings = w.crossings
          /\ probe = [NoProbe EXCEPT !.stage = "scenario", !.row = row, !.col = col]
    /\ isPlaying = FALSE
    /\ edits = 0
    /\ clock = 0

ScenarioPlay ==
    /\ ~isPlaying
    /\ TogglePlay

ScenarioTick ==
    /\ isPlaying
    /\ clock < MaxClock
    /\ Frame(MAX_DELTA)
    /\ clock' = clock + 1

ScenarioNext ==
    \/ ScenarioPlay
    \/ ScenarioTick

SpecScenario == ScenarioInit /\ [][ScenarioNext]_vars

----------------------------------------------------------------------------
(* Connectivity algebra applied to every piece, cell and direction          *)

AlgebraInit ==
    /\ \E row \in Idx, col \in Idx, enterDir \in Dirs, trackType \in TrackTypes :
          /\ grid = [initGrid EXCEPT ![<<row, col>>] = TrackCell(trackType)]
          /\ probe = [NoProbe EXCEPT !.stage = "input", !.row = row, !.col = col,
                                     !.enterDir = enterDir, !.trackType = trackType]
    /\ trains = <<>>
    /\ crossings = <<>>
    /\ isPlaying = FALSE
    /\ edits = 0
    /\ clock = 0

ApplyNext ==
    /\ probe.stage = "input"
    /\ probe' = [probe EXCEPT !.stage = "next",
                              !.next = getNextState(probe.row, probe.col,
                                                    probe.enterDir, probe.trackType)]
    /\ UNCHANGED <<grid, trains, crossings, isPlaying, edits, clock>>

ApplyPrevious ==
    /\ probe.stage = "next"
    /\ probe.next.ok
    /\ probe' = [probe EXCEPT !.stage = "prev",
                              !.prev = getPreviousState(grid, probe.next.row,
                                                        probe.next.col,
                                                        probe.next.exitDir)]
    /\ UNCHANGED <<grid, trains, crossings, isPlaying, edits, clock>>

\* getPreviousState asked for the predecessor of the cell that lies in
\* direction probe.enterDir of the piece, entered in that direction
ApplyInverse ==
    /\ probe.stage = "input"
    /\ probe' = [probe EXCEPT
                    !.stage = "inverse",
                    !.prev = getPreviousState(
                                grid,
                                IF probe.enterDir = UP THEN probe.row - 1
                                ELSE IF probe.enterDir = DOWN THEN probe.row + 1
                                ELSE probe.row,
                                IF probe.enterDir = LEFT THEN probe.col - 1
                                ELSE IF probe.enterDir = RIGHT THEN probe.col + 1
                                ELSE probe.col,
                                probe.enterDir)]
    /\ UNCHANGED <<grid, trains, crossings, isPlaying, edits, clock>>

AlgebraNext ==
    \/ ApplyNext
    \/ ApplyPrevious
    \/ ApplyInverse

SpecAlgebra == AlgebraInit /\ [][AlgebraNext]_vars

----------------------------------------------------------------------------
(* Fleet: two engines placed one after the other on a layout made of the    *)
(* loop and the column, then played.                                        *)

FleetGrid ==
    [c \in Cells |-> IF LoopGrid[c] # EmptyCell THEN LoopGrid[c] ELSE ColumnGrid[c]]

\* the layouts of the fleet: the loop beside the column, and the strip
FleetGrids == {FleetGrid, StripGrid}

FleetInit ==
    /\ \E g \in FleetGrids, a \in Cells, b \in Cells :
          /\ a # b
          /\ IsTrack(g, a[1], a[2])
          /\ IsTrack(g, b[1], b[2])
          /\ LET w == placeTrain(placeTrain(World(g, <<>>, <<>>), a[1], a[2]),
                                 b[1], b[2])
             IN  /\ grid = w.grid
                 /\ trains = w.trains
                 /\ crossings = w.crossings
    /\ isPlaying = FALSE
    /\ edits = 0
    /\ clock = 0
    /\ probe = NoProbe

FleetNext ==
    \/ TogglePlay
    \/ Tick

SpecFleet == FleetInit /\ [][FleetNext]_vars

----------------------------------------------------------------------------
(* Editor: a bounded number of applications of the track tools, in any      *)
(* order, to the cells of a cross around the middle of the empty grid.       *)

EditorCells == {<<0, 1>>, <<1, 0>>, <<1, 1>>, <<1, 2>>, <<2, 1>>}

EditorInit ==
    /\ grid = initGrid
    /\ trains = <<>>
    /\ crossings = <<>>
    /\ isPlaying = FALSE
    /\ edits = 0
    /\ clock = 0
    /\ probe = NoProbe

\* handleTap with a track tool selected, leaving w
Applies(w) ==
    /\ edits < MaxLayoutEdits
    /\ edits' = edits + 1
    /\ Becomes(w)
    /\ UNCHANGED <<isPlaying, clock, probe>>

EditorStraight ==
    \E c \in EditorCells : Applies(placeTrackSmart(Now, c[1], c[2], "straight"))

EditorCurve ==
    \E c \in EditorCells : Applies(placeTrackSmart(Now, c[1], c[2], "curve"))

EditorCrossing ==
    \E c \in EditorCells : Applies(placeCrossing(Now, c[1], c[2]))

EditorTunnel ==
    \E c \in EditorCells : Applies(placeTunnel(Now, c[1], c[2]))

EditorDelete ==
    \E c \in EditorCells : Applies(deleteTrack(Now, c[1], c[2]))

\* handleTap with an engine tool selected
EditorEngine ==
    \E c \in EditorCells :
       LET w == placeTrain(Now, c[1], c[2])
       IN  Len(w.trains) <= MaxTrains /\ Applies(w)

EditorNext ==
    \/ EditorStraight
    \/ EditorCurve
    \/ EditorCrossing
    \/ EditorTunnel
    \/ EditorDelete
    \/ EditorEngine

SpecEditor == EditorInit /\ [][EditorNext]_vars

----------------------------------------------------------------------------
(* Layout: a layout document loaded once over a state in which trains have  *)
(* been placed and run.                                                      *)

\* w with an engine placed on (row, col) and cars attached to it
WithTrain(w, row, col, cars) ==
    LET placed == placeTrain(w, row, col)
        n == Len(placed.trains)
    IN  [placed EXCEPT !.trains[n] = addCars(placed.grid, placed.trains[n], cars)]

\* states the documents are exported from
LayoutWorlds ==
    {World(initGrid, <<>>, <<>>),
     WithTrain(World(StripGrid, <<>>, <<>>), 0, 1, 1),
     WithTrain(World(LoopGrid, <<>>, <<>>), 0, 0, 1),
     WithTrain(CrossingStripWorld, 0, 2, 0)}

LayoutDocs == {exportLayout(w) : w \in LayoutWorlds}

\* loadLayout(layoutData)
Load ==
    \E layoutData \in LayoutDocs : Edit(loadLayout(Now, layoutData))

LayoutNext ==
    \/ TogglePlay
    \/ Tick
    \/ TapEngine
    \/ TapCar
    \/ Load

SpecLayout == Init /\ [][LayoutNext]_vars

----------------------------------------------------------------------------
(* Vocabulary of the properties *)

Engine(train) == train.segments[1]

PieceUnder(segment) == grid[<<segment.row, segment.col>>].trackType

OnTrack(train) == IsTrack(grid, Engine(train).row, Engine(train).col)

\* the train is one that a playing tick advances
Running(train) == isPlaying /\ ~train.stopped /\ OnTrack(train)

ExitOf(train) ==
    getNextState(Engine(train).row, Engine(train).col, Engine(train).enterDir,
                 PieceUnder(Engine(train)))

Completes(train, delta) ==
    Engine(train).progress + train.speed * delta >= One

\* the exit of the engine's piece leads to a cell of the grid holding track
Unobstructed(train) ==
    ExitOf(train).ok /\ IsTrack(grid, ExitOf(train).row, ExitOf(train).col)

\* the engine completes its cell and its exit leads above the first or below
\* the last row of the grid
LeavesGridVertically(train, delta) ==
    /\ Running(train)
    /\ Completes(train, delta)
    /\ ExitOf(train).ok
    /\ ExitOf(train).row \notin Idx

\* the tick gets as far as train i: no train before it leaves the grid vertically
Reached(i, delta) ==
    \A j \in 1 .. (i - 1) : ~LeavesGridVertically(trains[j], delta)

\* a non-stopped train has a segment in one of the two cells of the crossing
Occupied(ts, crossing) ==
    \E i \in DOMAIN ts :
       /\ ~ts[i].stopped
       /\ \E k \in DOMAIN ts[i].segments :
             <<ts[i].segments[k].row, ts[i].segments[k].col>> \in
                {<<crossing.row, crossing.col>>,
                 IF crossing.horizontal THEN <<crossing.row, crossing.col + 1>>
                 ELSE <<crossing.row + 1, crossing.col>>}

----------------------------------------------------------------------------
(* C1 End-of-track halt *)

AtOpenEnd(train) ==
    /\ PieceUnder(Engine(train)) = "straight-h"
    /\ Engine(train).enterDir = RIGHT
    /\ ~IsTrack(grid, Engine(train).row, Engine(train).col + 1)

\* C1: an engine travelling RIGHT on a straight-h cell whose right-hand
\* neighbour holds no track advances by speed * delta per playing tick until
\* its progress would reach one cell; on that tick the train becomes stopped
\* with progress pinned at 1.0 in the same cell, and every later tick leaves
\* the engine of a stopped train unchanged.
C1_EndOfTrackHalt ==
    [][\A delta \in Deltas : Frame(delta) =>
          \A i \in DOMAIN trains :
             LET t == trains[i]
                 e == Engine(t)
                 t2 == trains'[i]
                 e2 == Engine(t2)
             IN  /\ (Running(t) /\ Reached(i, delta) /\ AtOpenEnd(t)) =>
                       IF Completes(t, delta)
                       THEN t2.stopped /\ e2 = [e EXCEPT !.progress = One]
                       ELSE ~t2.stopped
                            /\ e2 = [e EXCEPT !.progress = @ + t.speed * delta]
                 /\ t.stopped => (t2.stopped /\ e2 = e)]_vars

\* a train halted at the open end of a straight-h piece
C1_Witness ==
    \E i \in DOMAIN trains :
       /\ trains[i].stopped
       /\ isPlaying
       /\ Engine(trains[i]).progress = One
       /\ AtOpenEnd(trains[i])

----------------------------------------------------------------------------
(* C2 STOPPED is terminal *)

Survives(train) == \E j \in DOMAIN trains' : trains'[j] = train

\* C2: a stopped train is left exactly as it is by every tick, play/pause
\* toggle and straight, curve or tunnel placement; the crossing tool either
\* leaves it as it is or removes it together with the crossing it deletes; and
\* no step other than placing a new engine yields a train of the same
\* identity that is not stopped or whose segments differ from the stored ones
\* (car attachment only appends).
C2_StoppedIsTerminal ==
    [][\A i \in DOMAIN trains :
          trains[i].stopped =>
             /\ (TogglePlay \/ Tick \/ TapStraight \/ TapCurve \/ TapTunnel)
                   => Survives(trains[i])
             /\ TapCrossing =>
                   \/ Survives(trains[i])
                   \/ \A j \in DOMAIN trains' : trains'[j].id # trains[i].id
             /\ \A j \in DOMAIN trains' :
                   (trains'[j].id = trains[i].id /\ ~TapEngine) =>
                      /\ trains'[j].stopped
                      /\ Len(trains'[j].segments) >= Len(trains[i].segments)
                      /\ SubSeq(trains'[j].segments, 1, Len(trains[i].segments))
                            = trains[i].segments]_vars

\* a train still stopped after track has been laid beyond the cell it stopped in
C2_Witness ==
    \E i \in DOMAIN trains :
       /\ trains[i].stopped
       /\ Engine(trains[i]).progress = One
       /\ Engine(trains[i]).enterDir = RIGHT
       /\ PieceUnder(Engine(trains[i])) = "straight-h"
       /\ IsTrack(grid, Engine(trains[i]).row, Engine(trains[i]).col + 1)

----------------------------------------------------------------------------
(* C3 Example scenario *)

\* the strip of three straight-h cells at row 0 with the engine placed at (0,0)
ExampleScenario ==
    /\ probe.stage = "scenario"
    /\ probe.row = 0
    /\ probe.col = 0
    /\ grid = StripWorld(0, 0, 2).grid
    /\ Len(trains) = 1

EngineIsAt(row, col, progress) ==
    /\ Engine(trains[1]).row = row
    /\ Engine(trains[1]).col = col
    /\ Engine(trains[1]).progress = progress

\* C3 as claimed: after 10 ticks of 0.1 s the engine is at (0,1) with progress
\* 0, and after 30 ticks it is stopped at (0,2) with progress 1.0.
C3_AsClaimed ==
    ExampleScenario =>
       /\ clock = 10 => EngineIsAt(0, 1, 0)
       /\ clock = 30 => (trains[1].stopped /\ EngineIsAt(0, 2, One))

\* C3 amended: the placed engine runs at 1.5 cells/s; it enters (0,1) with
\* progress 0 on tick 7, after 10 ticks it is at (0,1) with progress 0.45, and
\* from tick 21 on (so after 30 ticks) it is stopped at (0,2) with progress 1.0.
C3_ExampleScenario ==
    ExampleScenario =>
       /\ 2 * trains[1].speed * Second = 3 * One
       /\ clock = 7 => (~trains[1].stopped /\ EngineIsAt(0, 1, 0))
       /\ clock = 10 => (~trains[1].stopped /\ EngineIsAt(0, 1, (45 * One) \div 100))
       /\ clock < 21 => ~trains[1].stopped
       /\ clock >= 21 => (trains[1].stopped /\ EngineIsAt(0, 2, One))

C3_Witness ==
    /\ ExampleScenario
    /\ clock = 30
    /\ trains[1].stopped
    /\ EngineIsAt(0, 2, One)

----------------------------------------------------------------------------
(* C4 Connectivity table *)

\* <<piece, enterDir, exitDir>> as the specification lists them
ConnectivityTable ==
    {<<"straight-h", RIGHT, RIGHT>>, <<"straight-h", LEFT, LEFT>>,
     <<"crossing-h", RIGHT, RIGHT>>, <<"crossing-h", LEFT, LEFT>>,
     <<"tunnel-h", RIGHT, RIGHT>>, <<"tunnel-h", LEFT, LEFT>>,
     <<"straight-v", DOWN, DOWN>>, <<"straight-v", UP, UP>>,
     <<"crossing-v", DOWN, DOWN>>, <<"crossing-v", UP, UP>>,
     <<"tunnel-v", DOWN, DOWN>>, <<"tunnel-v", UP, UP>>,
     <<"curve-tl", DOWN, LEFT>>, <<"curve-tl", RIGHT, UP>>,
     <<"curve-tr", DOWN, RIGHT>>, <<"curve-tr", LEFT, UP>>,
     <<"curve-bl", UP, LEFT>>, <<"curve-bl", RIGHT, DOWN>>,
     <<"curve-br", UP, RIGHT>>, <<"curve-br", LEFT, DOWN>>}

RowOffset(dir) == IF dir = UP THEN -1 ELSE IF dir = DOWN THEN 1 ELSE 0

ColOffset(dir) == IF dir = LEFT THEN -1 ELSE IF dir = RIGHT THEN 1 ELSE 0

\* C4: for every piece, cell and enter direction getNextState returns the
\* table's exit direction, the cell offset by it and nextEnterDir equal to it,
\* and no transition for every pair the table does not list.
C4_ConnectivityTable ==
    probe.stage \in {"next", "prev"} =>
       LET rows == {t \in ConnectivityTable :
                       t[1] = probe.trackType /\ t[2] = probe.enterDir}
       IN  IF rows = {}
           THEN ~probe.next.ok
           ELSE \E t \in rows :
                   probe.next = [ok |-> TRUE,
                                 row |-> probe.row + RowOffset(t[3]),
                                 col |-> probe.col + ColOffset(t[3]),
                                 exitDir |-> t[3], nextEnterDir |-> t[3]]

C4_Witness ==
    /\ probe.stage = "next"
    /\ probe.trackType = "curve-bl"
    /\ probe.enterDir = RIGHT
    /\ probe.next.ok
    /\ probe.next.row = probe.row + 1
    /\ probe.next.exitDir = DOWN

----------------------------------------------------------------------------
(* C5 Connectivity closure *)

\* C5: getPreviousState applied to the next cell and exit direction that
\* getNextState yields for a piece at cell c entered with e returns c and e.
C5_RoundTrip ==
    probe.stage = "prev" =>
       /\ probe.prev.ok
       /\ probe.prev.row = probe.row
       /\ probe.prev.col = probe.col
       /\ probe.prev.enterDir = probe.enterDir
       /\ probe.prev.dir = probe.next.exitDir

\* the round trip of a curve whose next cell lies above the grid
C5_Witness ==
    /\ probe.stage = "prev"
    /\ probe.trackType = "curve-tr"
    /\ probe.enterDir = LEFT
    /\ probe.row = 0
    /\ probe.next.row = -1
    /\ probe.prev.ok
    /\ probe.prev.enterDir = LEFT

----------------------------------------------------------------------------
(* C6 Progress monotonicity *)

\* what the claim allows a tick to do to the engine of train i
AddsOrWraps(i, delta) ==
    LET t == trains[i]
        e == Engine(t)
        e2 == Engine(trains'[i])
        sameCell == e2.row = e.row /\ e2.col = e.col
        added == sameCell /\ e2.progress = e.progress + t.speed * delta
        wrapped == Completes(t, delta) /\ e2.progress = 0
    IN  /\ added \/ wrapped
        /\ ~sameCell <=> wrapped

\* C6: every playing tick with delta > 0 either adds speed * delta to the
\* progress of the engine of a non-stopped, unobstructed train on track (the
\* exit of its piece leads to a cell of the grid holding track) or wraps it to
\* 0, and the engine changes cell exactly on the wrapping ticks.
C6_ProgressMonotonic ==
    [][\A delta \in Deltas \ {0} : Frame(delta) =>
          \A i \in DOMAIN trains :
             (Running(trains[i]) /\ Unobstructed(trains[i])) =>
                AddsOrWraps(i, delta)]_vars

----------------------------------------------------------------------------
(* C7 Follower continuity *)

\* C7: at the end of every playing tick, for every train that was not
\* stopped and on track, followLeadSegment applied to segment k+1 from the
\* current state of segment k leaves segment k+1 as stored.
C7_FollowerContinuity ==
    [][\A delta \in Deltas : Frame(delta) =>
          \A i \in DOMAIN trains :
             Running(trains[i]) =>
                \A k \in 1 .. (Len(trains'[i].segments) - 1) :
                   followLeadSegment(grid, trains'[i].segments[k + 1],
                                     trains'[i].segments[k], k)
                      = trains'[i].segments[k + 1]]_vars

----------------------------------------------------------------------------
(* C8 Spacing invariant *)

\* the spacing, in progress units, behind the segment at 1-based position k
SpacingBehind(k) == IF k = 1 THEN ENGINE_TO_CAR_SPACING ELSE SEGMENT_SPACING

\* follower lies behind lead by exactly the spacing: in the same cell, or one
\* cell back along the track
ExactlyBehind(lead, follower, k) ==
    \/ /\ follower.row = lead.row
       /\ follower.col = lead.col
       /\ follower.enterDir = lead.enterDir
       /\ lead.progress - follower.progress = SpacingBehind(k)
    \/ LET back == getPreviousState(grid, lead.row, lead.col, lead.enterDir)
       IN  /\ back.ok
           /\ follower.row = back.row
           /\ follower.col = back.col
           /\ follower.enterDir = back.enterDir
           /\ One + lead.progress - follower.progress = SpacingBehind(k)

\* the lead segment has the spacing's worth of track behind it
HasRoomBehind(lead, k) ==
    \/ lead.progress >= SpacingBehind(k)
    \/ getPreviousState(grid, lead.row, lead.col, lead.enterDir).ok

\* train i gets a car attached in this step
CarAttached(i) ==
    /\ Len(trains') = Len(trains)
    /\ trains'[i].id = trains[i].id
    /\ Len(trains'[i].segments) = Len(trains[i].segments) + 1

\* C8: right after a car is attached, and at the end of every playing tick
\* for every non-stopped train on track, each segment lies behind its leader
\* by exactly the spacing (0.525 cells behind the engine, 0.45 cells behind a
\* car) whenever the leader has that much track behind it.
C8_SpacingInvariant ==
    [][/\ \A i \in DOMAIN trains :
             CarAttached(i) =>
                LET k == Len(trains[i].segments)
                IN  HasRoomBehind(trains'[i].segments[k], k) =>
                       ExactlyBehind(trains'[i].segments[k],
                                     trains'[i].segments[k + 1], k)
       /\ \A delta \in Deltas : Frame(delta) =>
             \A i \in DOMAIN trains :
                Running(trains[i]) =>
                   \A k \in 1 .. (Len(trains'[i].segments) - 1) :
                      HasRoomBehind(trains'[i].segments[k], k) =>
                         ExactlyBehind(trains'[i].segments[k],
                                       trains'[i].segments[k + 1], k)]_vars

----------------------------------------------------------------------------
(* C9 Crossing activation is immediate *)

\* C9: at the end of every tick executed while playing, every crossing with a
\* segment of a non-stopped train in one of its two cells is active and has
\* deactivateTimer = 0.
C9_CrossingActivation ==
    [][\A delta \in Deltas : (Frame(delta) /\ isPlaying) =>
          \A c \in DOMAIN crossings' :
             Occupied(trains', crossings'[c]) =>
                /\ crossings'[c].active
                /\ crossings'[c].deactivateTimer = 0]_vars

----------------------------------------------------------------------------
(* C10 Crossing grace period *)

\* C10: on every playing tick that leaves an active crossing vacant, the
\* crossing stays active with the tick's delta added to its timer while the
\* accumulated vacancy time is below 1.0 s, and becomes inactive with the
\* timer reset to 0 on the first tick at which it reaches 1.0 s.
C10_GracePeriod ==
    [][\A delta \in Deltas : (Frame(delta) /\ isPlaying) =>
          \A c \in DOMAIN crossings :
             (crossings[c].active /\ ~Occupied(trains', crossings[c])) =>
                IF crossings[c].deactivateTimer + delta < Second
                THEN /\ crossings'[c].active
                     /\ crossings'[c].deactivateTimer
                           = crossings[c].deactivateTimer + delta
                ELSE /\ ~crossings'[c].active
                     /\ crossings'[c].deactivateTimer = 0]_vars

----------------------------------------------------------------------------
(* C11 Crossing occupancy counts only non-stopped trains *)

\* the two cells of a crossing entity
Footprint(crossing) ==
    {<<crossing.row, crossing.col>>,
     IF crossing.horizontal THEN <<crossing.row, crossing.col + 1>>
     ELSE <<crossing.row + 1, crossing.col>>}

\* a stopped train has a segment in one of the two cells of the crossing
StoppedInside(ts, crossing) ==
    \E i \in DOMAIN ts :
       /\ ts[i].stopped
       /\ \E k \in DOMAIN ts[i].segments :
             <<ts[i].segments[k].row, ts[i].segments[k].col>> \in Footprint(crossing)

\* the tick runs updateCrossings: no train leaves the grid vertically in it
CrossingsUpdated(delta) == Reached(Len(trains) + 1, delta)

\* C11: on every playing tick that updates the crossings, a crossing is
\* treated as occupied exactly when a segment of a non-stopped train is in one
\* of its two cells: then it is active with timer 0; otherwise, also with a
\* stopped train inside its footprint, an inactive crossing stays inactive
\* and an active one accumulates the tick's delta and deactivates, timer reset,
\* when 1.0 s is reached.
C11_OnlyNonStoppedOccupy ==
    [][\A delta \in Deltas : (Frame(delta) /\ isPlaying /\ CrossingsUpdated(delta)) =>
          \A c \in DOMAIN crossings :
             IF \E i \in DOMAIN trains' :
                   /\ ~trains'[i].stopped
                   /\ \E k \in DOMAIN trains'[i].segments :
                         <<trains'[i].segments[k].row, trains'[i].segments[k].col>>
                            \in Footprint(crossings[c])
             THEN crossings'[c].active /\ crossings'[c].deactivateTimer = 0
             ELSE IF ~crossings[c].active
             THEN /\ ~crossings'[c].active
                  /\ crossings'[c].deactivateTimer = crossings[c].deactivateTimer
             ELSE IF crossings[c].deactivateTimer + delta < Second
             THEN /\ crossings'[c].active
                  /\ crossings'[c].deactivateTimer
                        = crossings[c].deactivateTimer + delta
             ELSE /\ ~crossings'[c].active
                  /\ crossings'[c].deactivateTimer = 0]_vars

\* a crossing that has deactivated while playing with a stopped train still
\* inside its footprint
C11_Witness ==
    /\ isPlaying
    /\ \E c \in DOMAIN crossings :
          /\ ~crossings[c].active
          /\ StoppedInside(trains, crossings[c])

----------------------------------------------------------------------------
(* C12 Deletion cascade (plain track) *)

\* the delete tool is applied to cell c in this step
DeleteApplied(c) == Edit(deleteTrack(Now, c[1], c[2]))

HoldsTrack(c) == grid[c].kind = "track"

HoldsCrossing(c) == HoldsTrack(c) /\ grid[c].trackType \in CrossingTypes

\* C12: delete applied to a non-crossing track cell clears exactly that cell,
\* removes exactly the trains whose engine is in it (trains with only a car
\* there stay as they are) and leaves the crossings unchanged.
C12_DeletePlainTrack ==
    [][\A c \in EditCells :
          (DeleteApplied(c) /\ HoldsTrack(c) /\ ~HoldsCrossing(c)) =>
             /\ grid'[c].kind # "track"
             /\ \A d \in Cells \ {c} : grid'[d] = grid[d]
             /\ crossings' = crossings
             /\ \A i \in DOMAIN trains :
                   <<Engine(trains[i]).row, Engine(trains[i]).col>> # c
                      => Survives(trains[i])
             /\ \A j \in DOMAIN trains' :
                   /\ <<Engine(trains'[j]).row, Engine(trains'[j]).col>> # c
                   /\ \E i \in DOMAIN trains : trains[i] = trains'[j]
             /\ Len(trains') =
                   Cardinality({i \in DOMAIN trains :
                      <<Engine(trains[i]).row, Engine(trains[i]).col>> # c})]_vars

\* a train that kept its car in a cell whose track has been deleted
C12_Witness ==
    /\ edits > 0
    /\ \E i \in DOMAIN trains :
          \E k \in 2 .. Len(trains[i].segments) :
             /\ grid[<<trains[i].segments[k].row, trains[i].segments[k].col>>].kind
                   # "track"
             /\ OnTrack(trains[i])

----------------------------------------------------------------------------
(* C13 Deletion cascade (crossing) *)

\* the crossing entities whose footprint contains cell c
EntitiesAt(c) == {i \in DOMAIN crossings : c \in Footprint(crossings[i])}

\* C13: delete applied to the start or the end cell of a crossing clears both
\* cells of that crossing, removes its entity from the crossings list, removes
\* every train whose engine is in either cell and no other train, and changes
\* no other grid cell and no other crossing entity.
C13_DeleteCrossing ==
    [][\A c \in EditCells :
          (DeleteApplied(c) /\ HoldsCrossing(c)) =>
             \E x \in EntitiesAt(c) :
                LET cells == Footprint(crossings[x])
                    gone(train) == <<Engine(train).row, Engine(train).col>> \in cells
                IN  /\ \A d \in cells : grid'[d].kind # "track"
                    /\ \A d \in Cells \ cells : grid'[d] = grid[d]
                    /\ crossings' = RemoveAt(crossings, x)
                    /\ \A i \in DOMAIN trains :
                          ~gone(trains[i]) => Survives(trains[i])
                    /\ \A j \in DOMAIN trains' :
                          /\ ~gone(trains'[j])
                          /\ \E i \in DOMAIN trains : trains[i] = trains'[j]
                    /\ Len(trains') =
                          Cardinality({i \in DOMAIN trains : ~gone(trains[i])})]_vars

\* a train on the piece after a deleted crossing whose car is still in one
\* of the two cleared cells
C13_Witness ==
    /\ edits > 0
    /\ crossings = <<>>
    /\ grid[<<0, 0>>] = EmptyCell
    /\ grid[<<0, 1>>] = EmptyCell
    /\ \E i \in DOMAIN trains :
          /\ <<Engine(trains[i]).row, Engine(trains[i]).col>> = <<0, 2>>
          /\ Len(trains[i].segments) > 1
          /\ <<trains[i].segments[2].row, trains[i].segments[2].col>> = <<0, 1>>

----------------------------------------------------------------------------
(* C14 Crossing footprint invariant *)

\* C14: every crossing entity has both cells of its footprint holding a
\* crossing piece of its orientation that references its start cell, the
\* first marked start and the second marked end, and every cell holding a
\* crossing piece lies in the footprint of exactly one crossing entity.
C14_CrossingFootprint ==
    /\ \A x \in DOMAIN crossings :
          LET cr == crossings[x]
              trackType == IF cr.horizontal THEN "crossing-h" ELSE "crossing-v"
              start == <<cr.row, cr.col>>
              end == <<crossingRow2(cr), crossingCol2(cr)>>
              refers(c, part) == /\ grid[c].kind = "track"
                                 /\ grid[c].trackType = trackType
                                 /\ grid[c].crossingRow = cr.row
                                 /\ grid[c].crossingCol = cr.col
                                 /\ grid[c].part = part
          IN  /\ end \in Cells
              /\ refers(start, "start")
              /\ refers(end, "end")
    /\ \A c \in Cells :
          HoldsCrossing(c) => Cardinality(EntitiesAt(c)) = 1

----------------------------------------------------------------------------
(* C15 At most one train per cell *)

\* C15: no two distinct trains have their engines in the same grid cell.
C15_OneTrainPerCell ==
    \A i \in DOMAIN trains, j \in DOMAIN trains :
       i # j => <<Engine(trains[i]).row, Engine(trains[i]).col>>
                   # <<Engine(trains[j]).row, Engine(trains[j]).col>>

----------------------------------------------------------------------------
(* C16 Valid-entry invariant *)

\* C16: the enterDir of every engine is one of the two enter directions the
\* piece in its cell accepts.
C16_ValidEntry ==
    \A i \in DOMAIN trains : OnTrack(trains[i]) /\ ExitOf(trains[i]).ok

----------------------------------------------------------------------------
(* C17 Pause freezes state *)

\* C17: a tick taken while the playing flag is false changes no train and no
\* crossing, and the play button changes nothing but the flag, so that the
\* first tick after resuming starts from the state held at the pause.
C17_PauseFreezes ==
    [][/\ \A delta \in Deltas :
             (Frame(delta) /\ ~isPlaying) =>
                (trains' = trains /\ crossings' = crossings)
       /\ TogglePlay =>
             (trains' = trains /\ crossings' = crossings /\ grid' = grid)]_vars

\* paused with a train under way and a vacated crossing inside its grace period
C17_Witness ==
    /\ ~isPlaying
    /\ \E i \in DOMAIN trains :
          ~trains[i].stopped /\ Engine(trains[i]).progress > 0
    /\ \E c \in DOMAIN crossings :
          /\ crossings[c].active
          /\ crossings[c].deactivateTimer > 0
          /\ crossings[c].lightTimer > 0

----------------------------------------------------------------------------
(* C18 Off-grid is 'no track', never an error *)

\* the exit of the engine's piece leads to a position outside the grid
ExitsGrid(train) ==
    ExitOf(train).ok /\ ~InGrid(ExitOf(train).row, ExitOf(train).col)

\* C18: when the engine of a running train completes a border cell whose exit
\* leads outside the grid, in any of the four directions, the tick raises no
\* error and leaves the train stopped with progress 1.0 in that cell.
C18_OffGridStops ==
    [][\A delta \in Deltas : Frame(delta) =>
          \A i \in DOMAIN trains :
             (Running(trains[i]) /\ Completes(trains[i], delta)
              /\ ExitsGrid(trains[i])) =>
                /\ ~stepTrains(grid, isPlaying, trains, delta, 1).threw
                /\ trains'[i].stopped
                /\ Engine(trains'[i]) = [Engine(trains[i]) EXCEPT !.progress = One]]_vars

----------------------------------------------------------------------------
(* C19 Invalid connectivity degrades to STOPPED *)

\* the piece under the engine accepts the engine's enterDir
Accepts(train) ==
    exitDirOf(PieceUnder(Engine(train)), Engine(train).enterDir) # -1

\* C19: when the engine of a running train whose enterDir its piece does not
\* accept is stepped by a tick that brings its progress to one cell, the train
\* becomes stopped with progress 1.0 and its row, col and enterDir unchanged;
\* stepping it raises no error and the grid is unchanged.
C19_InvalidEntryStops ==
    [][\A delta \in Deltas : Frame(delta) =>
          \A i \in DOMAIN trains :
             (Running(trains[i]) /\ ~Accepts(trains[i])
              /\ Completes(trains[i], delta) /\ Reached(i, delta)) =>
                /\ ~stepTrain(grid, isPlaying, trains[i], delta).threw
                /\ trains'[i].stopped
                /\ Engine(trains'[i]) = [Engine(trains[i]) EXCEPT !.progress = One]
                /\ grid' = grid]_vars

\* an engine that ran from the straight-h piece laid at (0,1) into the column
\* and stopped at the end of its straight-v cell
C19_Witness ==
    /\ grid[<<0, 1>>].trackType = "straight-h"
    /\ grid[<<0, 2>>].trackType = "straight-v"
    /\ grid[<<1, 2>>].trackType = "straight-v"
    /\ \E i \in DOMAIN trains :
          /\ trains[i].stopped
          /\ Engine(trains[i]) = Segment(0, 2, RIGHT, RIGHT, One)

----------------------------------------------------------------------------
(* C20 Straight tool on an occupied cell *)

\* the straight tool is applied to cell c in this step
StraightApplied(c) == Edit(placeTrackSmart(Now, c[1], c[2], "straight"))

OtherStraight(trackType) ==
    IF trackType = "straight-h" THEN "straight-v" ELSE "straight-h"

\* C20: the straight tool applied to a cell holding straight-h or straight-v
\* swaps that piece to the other orientation and changes nothing else, and a
\* second application restores the original piece; applied to a cell holding
\* any other piece it changes nothing in the grid, the trains or the crossings.
C20_StraightToolOnOccupied ==
    [][\A c \in EditCells :
          (StraightApplied(c) /\ HoldsTrack(c)) =>
             /\ trains' = trains
             /\ crossings' = crossings
             /\ \A d \in Cells \ {c} : grid'[d] = grid[d]
             /\ IF grid[c].trackType \in StraightTypes
                THEN /\ grid'[c] = TrackCell(OtherStraight(grid[c].trackType))
                     /\ placeTrackSmart(World(grid', trains', crossings'),
                                        c[1], c[2], "straight").grid[c]
                           = TrackCell(grid[c].trackType)
                ELSE grid'[c] = grid[c]]_vars

\* the strip after the straight tool has turned its first piece
C20_Witness ==
    /\ edits > 0
    /\ grid[<<0, 0>>] = TrackCell("straight-v")
    /\ grid[<<0, 1>>] = TrackCell("straight-h")

----------------------------------------------------------------------------
(* C21 Straight tool on an empty cell *)

\* the straight tool is applied to cell c of the editor in this step
StraightTapped(c) == Applies(placeTrackSmart(Now, c[1], c[2], "straight"))

NeighbourOrder == <<UP, RIGHT, DOWN, LEFT>>

\* the neighbour of c on side dir is a cell of the grid holding track
TrackOnSide(c, dir) ==
    LET n == <<c[1] + RowOffset(dir), c[2] + ColOffset(dir)>>
    IN  n \in Cells /\ grid[n].kind = "track"

\* the piece the straight tool is to place on the empty cell c
ExpectedStraight(c) ==
    LET sides == {k \in DOMAIN NeighbourOrder : TrackOnSide(c, NeighbourOrder[k])}
    IN  IF sides = {} THEN "straight-h"
        ELSE LET first == CHOOSE k \in sides : \A j \in sides : k <= j
             IN  IF NeighbourOrder[first] \in {UP, DOWN} THEN "straight-v"
                 ELSE "straight-h"

\* C21: the straight tool applied to an empty cell places straight-h when no
\* neighbour inside the grid holds track, and otherwise straight-v or
\* straight-h according to whether the first track neighbour in the order
\* UP, RIGHT, DOWN, LEFT lies above/below or left/right of the cell.
C21_StraightOnEmpty ==
    [][\A c \in EditorCells :
          (StraightTapped(c) /\ ~HoldsTrack(c)) =>
             /\ grid'[c] = TrackCell(ExpectedStraight(c))
             /\ \A d \in Cells \ {c} : grid'[d] = grid[d]]_vars

\* a straight-v piece laid in one application between a piece above it and a
\* piece to its right, and a straight-h piece laid beside a piece on its left
C21_Witness ==
    /\ edits = 3
    /\ grid[<<0, 1>>].trackType = "curve-tl"
    /\ grid[<<1, 1>>] = TrackCell("straight-v")
    /\ grid[<<1, 2>>] = TrackCell("straight-h")
    /\ grid[<<1, 0>>] = EmptyCell
    /\ grid[<<2, 1>>] = EmptyCell

----------------------------------------------------------------------------
(* C22 Curve tool cycle *)

\* the curve tool is applied to cell c of the editor in this step
CurveTapped(c) == Applies(placeTrackSmart(Now, c[1], c[2], "curve"))

CurveOrder == <<"curve-tl", "curve-tr", "curve-bl", "curve-br">>

\* the variant following trackType in the cycle
CycleNext(trackType) ==
    LET k == CHOOSE j \in DOMAIN CurveOrder : CurveOrder[j] = trackType
    IN  CurveOrder[(k % Len(CurveOrder)) + 1]

\* the world after n applications of the curve tool to cell c
RECURSIVE CurveTimes(_, _, _)
CurveTimes(w, c, n) ==
    IF n = 0 THEN w
    ELSE CurveTimes(placeTrackSmart(w, c[1], c[2], "curve"), c, n - 1)

\* C22: the curve tool applied to an empty cell places curve-tl; applied to a
\* cell holding a curve it places the next variant of the cycle tl, tr, bl,
\* br, tl, and four applications to a curve cell restore its variant.
C22_CurveCycle ==
    [][\A c \in EditorCells :
          CurveTapped(c) =>
             /\ ~HoldsTrack(c) => grid'[c] = TrackCell("curve-tl")
             /\ (HoldsTrack(c) /\ grid[c].trackType \in CurveTypes) =>
                   /\ grid'[c] = TrackCell(CycleNext(grid[c].trackType))
                   /\ CurveTimes(Now, c, 4).grid[c] = grid[c]]_vars

\* the middle cell after four applications of the curve tool to the empty grid
C22_Witness ==
    /\ edits = 4
    /\ grid = [initGrid EXCEPT ![<<1, 1>>] = TrackCell("curve-br")]
    /\ crossings = <<>>

----------------------------------------------------------------------------
(* C23 Crossing tool failure is a no-op *)

\* the crossing tool is applied to cell c of the editor in this step
CrossingTapped(c) == Applies(placeCrossing(Now, c[1], c[2]))

VerticalTypes == {"straight-v", "crossing-v", "tunnel-v"}

HorizontalTypes == {"straight-h", "crossing-h", "tunnel-h"}

\* the neighbour of c on side dir holds a piece of one of the types
PieceOnSide(c, dir, types) ==
    TrackOnSide(c, dir) /\
    grid[<<c[1] + RowOffset(dir), c[2] + ColOffset(dir)>>].trackType \in types

VerticalBeside(c) ==
    PieceOnSide(c, UP, VerticalTypes) \/ PieceOnSide(c, DOWN, VerticalTypes)

HorizontalBeside(c) ==
    PieceOnSide(c, LEFT, HorizontalTypes) \/ PieceOnSide(c, RIGHT, HorizontalTypes)

\* the second cell of a crossing of the given orientation started at c
SecondCell(c, horizontal) ==
    IF horizontal THEN <<c[1], c[2] + 1>> ELSE <<c[1] + 1, c[2]>>

\* the crossing tool applied to c fails: its second cell, in the direction the
\* tool chooses, is outside the grid or holds a piece of a crossing
CrossingFails(c) ==
    LET second == SecondCell(c, ~VerticalBeside(c))
    IN  second \notin Cells \/ grid[second].trackType \in CrossingTypes

\* C23: an application of the crossing tool whose second cell would lie
\* outside the grid or holds a crossing piece leaves the grid, the crossings
\* and the trains unchanged.
C23_CrossingFailureNoOp ==
    [][\A c \in EditorCells :
          (CrossingTapped(c) /\ CrossingFails(c)) =>
             (grid' = grid /\ crossings' = crossings /\ trains' = trains)]_vars

\* a crossing on (1,1)-(1,2) with an engine on it after three edits, where the
\* crossing tool fails both at (1,0) and at (1,2)
C23_Witness ==
    /\ edits = 3
    /\ Len(crossings) = 1
    /\ grid[<<1, 1>>].part = "start"
    /\ \A c \in Cells \ {<<1, 1>>, <<1, 2>>} : grid[c] = EmptyCell
    /\ Len(trains) = 1
    /\ CrossingFails(<<1, 0>>)
    /\ CrossingFails(<<1, 2>>)

----------------------------------------------------------------------------
(* C24 Crossing orientation preference *)

\* the crossing tool applied to c has placed a crossing starting at c
CrossingPlaced(c) ==
    /\ CrossingTapped(c)
    /\ Len(crossings') > 0
    /\ crossings'[Len(crossings')].mesh \notin
          {crossings[i].mesh : i \in DOMAIN crossings}
    /\ crossings'[Len(crossings')].row = c[1]
    /\ crossings'[Len(crossings')].col = c[2]

\* C24: a crossing placed by the crossing tool is vertical, over (row,col) and
\* (row+1,col), exactly when some neighbour above or below is a vertical piece
\* and no neighbour to the left or right is a horizontal piece; in every other
\* configuration it is horizontal, over (row,col) and (row,col+1).
C24_HorizontalPreferred ==
    [][\A c \in EditorCells :
          CrossingPlaced(c) =>
             LET vertical == VerticalBeside(c) /\ ~HorizontalBeside(c)
                 trackType == IF vertical THEN "crossing-v" ELSE "crossing-h"
             IN  /\ grid'[c].trackType = trackType
                 /\ grid'[SecondCell(c, ~vertical)].trackType = trackType
                 /\ crossings'[Len(crossings')].horizontal = ~vertical]_vars

----------------------------------------------------------------------------
(* C25 Crossing tool needs a free second cell *)

\* cell d is empty or holds a piece of a crossing
FreeOrCrossing(d) == grid[d].kind = "none" \/ grid[d].trackType \in CrossingTypes

\* C25: when the crossing tool places a crossing, neither the target cell nor
\* the second cell held a straight, curve or tunnel piece before, and no
\* train is left with a segment on a cell whose piece was replaced.
C25_SecondCellFree ==
    [][\A c \in EditorCells :
          CrossingPlaced(c) =>
             LET second == SecondCell(c, crossings'[Len(crossings')].horizontal)
             IN  /\ FreeOrCrossing(c)
                 /\ FreeOrCrossing(second)
                 /\ \A i \in DOMAIN trains' :
                       \A k \in DOMAIN trains'[i].segments :
                          LET at == <<trains'[i].segments[k].row,
                                      trains'[i].segments[k].col>>
                          IN  (at \in {c, second}) => grid[at].kind = "none"]_vars

----------------------------------------------------------------------------
(* C26 Tunnel tool *)

\* the tunnel tool is applied to cell c of the editor in this step
TunnelTapped(c) == Applies(placeTunnel(Now, c[1], c[2]))

\* C26: the tunnel tool applied to a straight-h cell turns it into tunnel-h
\* and applied to a straight-v cell into tunnel-v, changing no other cell, no
\* train and no crossing; applied to any other cell (empty, curve, crossing,
\* tunnel) it changes nothing.
C26_TunnelTool ==
    [][\A c \in EditorCells :
          TunnelTapped(c) =>
             /\ trains' = trains
             /\ crossings' = crossings
             /\ grid' = IF HoldsTrack(c) /\ grid[c].trackType = "straight-h"
                        THEN [grid EXCEPT ![c] = TrackCell("tunnel-h")]
                        ELSE IF HoldsTrack(c) /\ grid[c].trackType = "straight-v"
                        THEN [grid EXCEPT ![c] = TrackCell("tunnel-v")]
                        ELSE grid]_vars

\* the middle cell after the straight tool placed and turned a piece and the
\* tunnel tool converted it
C26_Witness ==
    /\ edits = 3
    /\ grid = [initGrid EXCEPT ![<<1, 1>>] = TrackCell("tunnel-v")]
    /\ trains = <<>>
    /\ crossings = <<>>

----------------------------------------------------------------------------
(* C27 Train placement *)

\* an engine tool is applied to cell c of the editor in this step
EngineTapped(c) == Applies(placeTrain(Now, c[1], c[2]))

\* the direction in which an engine placed on a piece starts
StartDir(trackType) ==
    IF trackType \in HorizontalTypes THEN RIGHT
    ELSE IF trackType \in VerticalTypes THEN DOWN
    ELSE IF trackType \in {"curve-tl", "curve-tr"} THEN DOWN
    ELSE UP

\* the enter directions the connectivity table lists for a piece
ValidEnterDirs(trackType) ==
    {e[2] : e \in {x \in ConnectivityTable : x[1] = trackType}}

\* C27: placing an engine on a cell without track changes nothing; on a track
\* cell it leaves the grid and the crossings as they are and adds a train that
\* is not stopped and has one segment in that cell with progress 0 and
\* enterDir = dir = RIGHT on straight-h/crossing-h/tunnel-h, DOWN on
\* straight-v/crossing-v/tunnel-v and curve-tl/curve-tr, UP on
\* curve-bl/curve-br, which is a valid enter direction of the piece.
C27_TrainPlacement ==
    [][\A c \in EditorCells :
          EngineTapped(c) =>
             /\ grid' = grid
             /\ crossings' = crossings
             /\ IF ~HoldsTrack(c)
                THEN trains' = trains
                ELSE LET train == trains'[Len(trains')]
                         d == StartDir(grid[c].trackType)
                     IN  /\ Len(trains') > 0
                         /\ train.segments = <<Segment(c[1], c[2], d, d, 0)>>
                         /\ ~train.stopped
                         /\ d \in ValidEnterDirs(grid[c].trackType)
                         /\ Cardinality(ValidEnterDirs(grid[c].trackType)) = 2]_vars

\* an engine placed on the curve-br piece the curve tool reached in four steps
C27_Witness ==
    /\ edits = 5
    /\ grid[<<1, 1>>] = TrackCell("curve-br")
    /\ Len(trains) = 1
    /\ ~trains[1].stopped
    /\ trains[1].segments = <<Segment(1, 1, UP, UP, 0)>>

----------------------------------------------------------------------------
(* C28 Layout load resets everything *)

\* layoutData is loaded in this step
Loaded(layoutData) == Edit(loadLayout(Now, layoutData))

\* the outcome of loading layoutData over the empty state
LoadedOverEmpty(layoutData) == loadLayout(World(initGrid, <<>>, <<>>), layoutData)

\* C28: the grid, the trains and the crossings after loadLayout(doc) are those
\* that loading doc over the empty state gives, whatever the tracks, trains,
\* stopped flags and active crossings before the call; no loaded train is
\* stopped and no loaded crossing is active.
C28_LoadResets ==
    [][\A layoutData \in LayoutDocs :
          Loaded(layoutData) =>
             /\ grid' = LoadedOverEmpty(layoutData).grid
             /\ trains' = LoadedOverEmpty(layoutData).trains
             /\ crossings' = LoadedOverEmpty(layoutData).crossings
             /\ \A i \in DOMAIN trains' : ~trains'[i].stopped
             /\ \A c \in DOMAIN crossings' : ~crossings'[c].active]_vars

\* the strip layout with its engine and car, loaded while playing
C28_Witness ==
    /\ edits = 1
    /\ isPlaying
    /\ grid = StripGrid
    /\ crossings = <<>>
    /\ Len(trains) = 1
    /\ ~trains[1].stopped
    /\ Len(trains[1].segments) = 2
    /\ Engine(trains[1]) = Segment(0, 1, RIGHT, RIGHT, 0)

----------------------------------------------------------------------------
(* C29 Ticks never edit the layout *)

\* what identifies a crossing entity, apart from its signal state
CrossingEntity(crossing) ==
    [row |-> crossing.row, col |-> crossing.col, mesh |-> crossing.mesh,
     horizontal |-> crossing.horizontal]

\* C29: a tick, playing or paused, leaves the kind and the piece type of
\* every grid cell unchanged and adds or removes no train, no segment of a
\* train and no crossing entity; the play button does not either.
C29_TicksKeepLayout ==
    [][((\E delta \in Deltas : Frame(delta)) \/ TogglePlay) =>
          /\ \A c \in Cells : /\ grid'[c].kind = grid[c].kind
                              /\ grid'[c].trackType = grid[c].trackType
          /\ Len(trains') = Len(trains)
          /\ \A i \in DOMAIN trains :
                /\ trains'[i].id = trains[i].id
                /\ Len(trains'[i].segments) = Len(trains[i].segments)
          /\ Len(crossings') = Len(crossings)
          /\ \A c \in DOMAIN crossings :
                CrossingEntity(crossings'[c]) = CrossingEntity(crossings[c])]_vars

\* a playing train with two cars under way on a layout whose crossing it has
\* activated
C29_Witness ==
    /\ isPlaying
    /\ \E i \in DOMAIN trains :
          /\ Len(trains[i].segments) = 3
          /\ Engine(trains[i]).progress > 0
          /\ ~trains[i].stopped
    /\ \E c \in DOMAIN crossings : crossings[c].active

----------------------------------------------------------------------------
(* C30 Inverse lookup is an exact inverse *)

\* C30: a predecessor state that getPreviousState returns for the cell lying
\* in direction x of a piece, entered in direction x, is the cell of the piece
\* with an enterDir for which getNextState yields exit direction x and leads
\* back to that cell; for an exit direction x the piece cannot produce,
\* getPreviousState returns no predecessor.
C30_ExactInverse ==
    probe.stage = "inverse" =>
       LET x == probe.enterDir
           target == <<probe.row + RowOffset(x), probe.col + ColOffset(x)>>
           forward == getNextState(probe.prev.row, probe.prev.col,
                                   probe.prev.enterDir, probe.trackType)
       IN  IF \E e \in Dirs : <<probe.trackType, e, x>> \in ConnectivityTable
           THEN /\ probe.prev.ok
                /\ <<probe.prev.row, probe.prev.col>> = <<probe.row, probe.col>>
                /\ forward.ok
                /\ forward.exitDir = x
                /\ <<forward.row, forward.col>> = target
           ELSE ~probe.prev.ok

----------------------------------------------------------------------------
(* C31 Car attachment *)

\* a car is attached to train i in this step
CarTapped(i) ==
    /\ i \in DOMAIN trains
    /\ trains' = [trains EXCEPT ![i] = addCarToTrain(grid, trains[i])]
    /\ UNCHANGED <<grid, crossings, isPlaying, edits, clock, probe>>

\* the spacing behind the segment at 1-based position k of a train
SpacingAfter(k) == IF k = 1 THEN ENGINE_TO_CAR_SPACING ELSE SEGMENT_SPACING

\* the state of a car placed the given spacing behind a leader: in the
\* leader's cell, in the predecessor cell, or at the start of the leader's
\* cell when there is no predecessor
PlacedBehind(leader, spacing) ==
    LET back == leader.progress - spacing
        prevState == getPreviousState(grid, leader.row, leader.col, leader.enterDir)
    IN  IF back >= 0
        THEN Segment(leader.row, leader.col, leader.dir, leader.enterDir, back)
        ELSE IF prevState.ok
        THEN Segment(prevState.row, prevState.col, prevState.dir,
                     prevState.enterDir, back + One)
        ELSE Segment(leader.row, leader.col, leader.dir, leader.enterDir, 0)

\* C31: addCarToTrain appends one segment whose state is the last segment's
\* state moved back by 0.525 cells (first car) or 0.45 cells (later cars),
\* in the predecessor cell given by getPreviousState when that makes progress
\* negative, and at progress 0 in the last segment's cell when there is no
\* predecessor; the segments the train had are unchanged.
C31_CarAttachment ==
    [][\A i \in DOMAIN trains :
          CarTapped(i) =>
             LET n == Len(trains[i].segments)
             IN  trains'[i].segments =
                    Append(trains[i].segments,
                           PlacedBehind(trains[i].segments[n], SpacingAfter(n)))]_vars

\* an engine under way in the second cell of the strip with two cars attached
\* in the cell before it, 0.525 and 0.45 cells apart
C31_Witness ==
    /\ grid = StripGrid
    /\ Len(trains) = 1
    /\ trains[1].segments = <<Segment(0, 1, RIGHT, RIGHT, 60),
                              Segment(0, 0, RIGHT, RIGHT, 155),
                              Segment(0, 0, RIGHT, RIGHT, 65)>>

----------------------------------------------------------------------------
(* C32 Tick follower recomputation equals car attachment *)

\* the car addCarToTrain would attach behind the first k segments of a train
AttachedBehind(train, k) ==
    LET front == [train EXCEPT !.segments = SubSeq(@, 1, k)]
    IN  addCarToTrain(grid, front).segments[k + 1]

\* the tick steps train i and recomputes its followers
FollowersRecomputed(i, delta) ==
    /\ Running(trains[i])
    /\ Reached(i, delta)
    /\ ~stepTrain(grid, isPlaying, trains[i], delta).threw

\* C32: the state a tick gives to a follower is the state addCarToTrain
\* computes for a car attached behind the follower's leader, also when
\* stepping backward finds no valid predecessor.
C32_FollowEqualsAttach ==
    [][\A delta \in Deltas : Frame(delta) =>
          \A i \in DOMAIN trains :
             FollowersRecomputed(i, delta) =>
                \A k \in 2 .. Len(trains[i].segments) :
                   trains'[i].segments[k] = AttachedBehind(trains'[i], k - 1)]_vars

----------------------------------------------------------------------------
(* C33 Backward stepping is bounded *)

\* leader progress values at which the two spacings change cell, with the
\* ends of the range
ProgressSamples ==
    {0, SEGMENT_SPACING - 1, SEGMENT_SPACING, ENGINE_TO_CAR_SPACING - 1,
     ENGINE_TO_CAR_SPACING, One}

\* the walk back from a leader with the given progress takes at most one
\* iteration and ends in the leader's cell or in its predecessor cell
OneStepBack(leader, progress, segmentIndex) ==
    LET target == progress - targetDistanceBehind(segmentIndex)
        walk == stepBack(grid, target, leader.row, leader.col,
                         leader.enterDir, leader.dir)
        prevState == getPreviousState(grid, leader.row, leader.col, leader.enterDir)
    IN  /\ backwardSteps(grid, target, leader.row, leader.col, leader.enterDir) <= 1
        /\ \/ <<walk.seg.row, walk.seg.col>> = <<leader.row, leader.col>>
           \/ /\ prevState.ok
              /\ <<walk.seg.row, walk.seg.col>> = <<prevState.row, prevState.col>>

\* C33: for every segment of every train as leader, with its own progress and
\* with every sampled progress in [0, 1], and for both spacings, the backward
\* walk of followLeadSegment and addCarToTrain enters its loop at most once
\* and places the follower in the leader's cell or in the cell immediately
\* preceding it.
C33_BackwardStepBounded ==
    \A i \in DOMAIN trains :
       \A k \in DOMAIN trains[i].segments :
          \A progress \in ProgressSamples \cup {trains[i].segments[k].progress} :
             \A segmentIndex \in {1, 2} :
                OneStepBack(trains[i].segments[k], progress, segmentIndex)

\* a train on the loop whose first car shares the engine's cell and whose
\* second car has stepped back into the cell before it
C33_Witness ==
    /\ grid = LoopGrid
    /\ \E i \in DOMAIN trains :
          LET s == trains[i].segments
          IN  /\ Len(s) = 3
              /\ <<s[2].row, s[2].col>> = <<s[1].row, s[1].col>>
              /\ <<s[3].row, s[3].col>> # <<s[2].row, s[2].col>>
              /\ s[3].progress > 0

----------------------------------------------------------------------------
(* C34 Progress range *)

\* C34: the progress of every segment lies in [0, 1], the progress of a car
\* is below 1, and an engine has progress 1.0 only in a stopped train.
C34_ProgressRange ==
    \A i \in DOMAIN trains :
       /\ \A k \in DOMAIN trains[i].segments :
             /\ trains[i].segments[k].progress >= 0
             /\ trains[i].segments[k].progress <= One
             /\ k > 1 => trains[i].segments[k].progress < One
       /\ Engine(trains[i]).progress = One => trains[i].stopped


\* a train stopped at the end of its track with two cars behind the engine
C34_Witness ==
    /\ isPlaying
    /\ \E i \in DOMAIN trains :
          /\ trains[i].stopped
          /\ Engine(trains[i]).progress = One
          /\ Len(trains[i].segments) = 3
          /\ trains[i].segments[2].progress = One - ENGINE_TO_CAR_SPACING
          /\ trains[i].segments[3].progress = One - ENGINE_TO_CAR_SPACING - SEGMENT_SPACING


----------------------------------------------------------------------------
(* C35 Re-entry resets the grace timer *)

\* the crossing is in its grace period (active, vacancy time accumulated) and
\* a segment of a non-stopped train is in one of its cells after the step
Reentered(c) ==
    /\ crossings[c].active
    /\ crossings[c].deactivateTimer > 0
    /\ Occupied(trains', crossings[c])

\* C35: on every playing tick, a crossing in its grace period that a
\* non-stopped train occupies again ends the tick active with its timer back
\* at 0; the timer grows only by the delta of a tick that leaves the crossing
\* vacant, and an active crossing becomes inactive only on a vacant tick at
\* which the timer, counted from 0 since the last occupancy, reaches 1.0 s.
C35_ReentryResets ==
    [][\A delta \in Deltas : (Frame(delta) /\ isPlaying) =>
          \A c \in DOMAIN crossings :
             /\ Reentered(c) =>
                   /\ crossings'[c].active
                   /\ crossings'[c].deactivateTimer = 0
             /\ crossings'[c].deactivateTimer > crossings[c].deactivateTimer =>
                   /\ ~Occupied(trains', crossings[c])
                   /\ crossings'[c].deactivateTimer
                         = crossings[c].deactivateTimer + delta
             /\ (crossings[c].active /\ ~crossings'[c].active) =>
                   /\ ~Occupied(trains', crossings[c])
                   /\ crossings[c].deactivateTimer + delta >= Second]_vars


----------------------------------------------------------------------------
(* C36 Layout round-trip *)

\* the crossings of a world as a set of (row, col, horizontal)
CrossingSet(w) ==
    {<<w.crossings[i].row, w.crossings[i].col, w.crossings[i].horizontal>>
       : i \in DOMAIN w.crossings}

\* what the round trip is to preserve of a train: the engine's cell, enterDir
\* and dir, and its cars in order (every car has the one type of the model)
TrainSummary(train) ==
    [row |-> Engine(train).row, col |-> Engine(train).col,
     enterDir |-> Engine(train).enterDir, dir |-> Engine(train).dir,
     cars |-> Len(train.segments) - 1]

\* C36: loading the exported layout of the current state yields the same piece
\* type in every cell, the same set of crossings (row, col, horizontal) and,
\* train by train, the same engine cell, enterDir, dir and cars.
C36_LayoutRoundTrip ==
    LET w == loadLayout(Now, exportLayout(Now))
    IN  /\ \A c \in Cells : w.grid[c].trackType = grid[c].trackType
        /\ CrossingSet(w) = CrossingSet(Now)
        /\ Len(w.trains) = Len(trains)
        /\ \A i \in DOMAIN trains :
              TrainSummary(w.trains[i]) = TrainSummary(trains[i])


----------------------------------------------------------------------------
(* C37 Engines never dangle *)

\* tools, train and car taps, load and ticks together
StudioNext ==
    \/ TogglePlay
    \/ Tick
    \/ TapStraight
    \/ TapCurve
    \/ TapCrossing
    \/ TapTunnel
    \/ TapDeleteTrack
    \/ TapDeleteTrain
    \/ TapEngine
    \/ TapCar
    \/ Load

SpecStudio == Init /\ [][StudioNext]_vars

\* C37: in every state reached through tools, train placement, load and
\* ticks, the engine of every listed train is in a cell of the grid that
\* holds a track piece.
C37_EnginesNeverDangle ==
    \A i \in DOMAIN trains :
       /\ <<Engine(trains[i]).row, Engine(trains[i]).col>> \in Cells
       /\ grid[<<Engine(trains[i]).row, Engine(trains[i]).col>>].kind = "track"

\* after a tool application, a train stands stopped before a cell of the grid
\* that holds no track: its engine was not moved there
C37_Witness ==
    /\ edits = 1
    /\ \E i \in DOMAIN trains :
          /\ trains[i].stopped
          /\ ExitOf(trains[i]).ok
          /\ <<ExitOf(trains[i]).row, ExitOf(trains[i]).col>> \in Cells
          /\ grid[<<ExitOf(trains[i]).row, ExitOf(trains[i]).col>>].kind # "track"


----------------------------------------------------------------------------
(* C38 Every open track ends in a stop *)

\* an engine placed on any track cell of a layout, playing; whether and where
\* a train stops is decided by its engine alone
JourneyInit ==
    /\ \E w \in InitWorlds, c \in Cells :
          /\ IsTrack(w.grid, c[1], c[2])
          /\ LET placed == placeTrain(w, c[1], c[2])
             IN  /\ grid = placed.grid
                 /\ trains = placed.trains
                 /\ crossings = placed.crossings
    /\ isPlaying = TRUE
    /\ edits = 0
    /\ clock = 0
    /\ probe = NoProbe

\* a playing tick with delta > 0
JourneyTick ==
    /\ isPlaying
    /\ \E delta \in Deltas \ {0} : Frame(delta)
    /\ UNCHANGED clock

JourneyNext ==
    \/ JourneyTick

\* animate re-arms itself through requestAnimationFrame before it steps the
\* trains, so playing ticks keep coming
SpecJourney == JourneyInit /\ [][JourneyNext]_vars /\ WF_vars(JourneyTick)

\* an engine state is one of at most 4 * GRID_SIZE * GRID_SIZE
PathFuel == 4 * GRID_SIZE * GRID_SIZE

\* the end of the sequence of cells an engine follows from (row, col, enterDir):
\* the cell whose piece does not accept the direction of travel, or whose
\* exit leads to an empty cell or off the grid; not finite when the sequence
\* is longer than the number of engine states
RECURSIVE PathEnd(_, _, _, _, _)
PathEnd(g, row, col, enterDir, fuel) ==
    LET next == getNextState(row, col, enterDir, g[<<row, col>>].trackType)
    IN  IF ~next.ok \/ ~IsTrack(g, next.row, next.col)
        THEN [finite |-> TRUE, row |-> row, col |-> col]
        ELSE IF fuel = 0
        THEN [finite |-> FALSE, row |-> row, col |-> col]
        ELSE PathEnd(g, next.row, next.col, next.nextEnterDir, fuel - 1)

EnginePathEnd(train) ==
    PathEnd(grid, Engine(train).row, Engine(train).col, Engine(train).enterDir,
            PathFuel)

\* C38: a train whose engine's path from its current cell and enterDir is
\* finite eventually becomes stopped, in the last track cell of that path,
\* under continued playing ticks with delta > 0 and no layout edits.
C38_OpenTrackEndsInStop ==
    \A c \in Cells :
       (/\ trains # <<>>
        /\ EnginePathEnd(trains[1]).finite
        /\ <<EnginePathEnd(trains[1]).row, EnginePathEnd(trains[1]).col>> = c)
       ~> (/\ trains[1].stopped
           /\ <<Engine(trains[1]).row, Engine(trains[1]).col>> = c)


----------------------------------------------------------------------------
(* C39 A closed loop never stops a train *)

\* the engine's path from its cell and enterDir never ends: it is on a closed
\* circuit of pieces that accept each other's direction of travel
OnCircuit(train) == ~EnginePathEnd(train).finite

\* the engine's cell and direction of entry
EnginePlace(train) ==
    <<Engine(train).row, Engine(train).col, Engine(train).enterDir>>

\* the next cell of the circuit after the engine's, with its direction of entry
NextOnCircuit(train) ==
    <<ExitOf(train).row, ExitOf(train).col, ExitOf(train).nextEnterDir>>

\* C39: on every tick, a train that is not stopped and whose engine is on a
\* closed circuit is still not stopped afterwards, whatever its number of
\* cars, and its engine is in the same cell or has entered the next cell of
\* the circuit, which it does only when it completes its cell while playing.
C39_ClosedLoopNeverStops ==
    [][\A delta \in Deltas : Frame(delta) =>
          \A i \in DOMAIN trains :
             (~trains[i].stopped /\ OnCircuit(trains[i])) =>
                /\ ~trains'[i].stopped
                /\ OnCircuit(trains'[i])
                /\ EnginePlace(trains'[i]) \in
                      {EnginePlace(trains[i]), NextOnCircuit(trains[i])}
                /\ EnginePlace(trains'[i]) # EnginePlace(trains[i]) =>
                      isPlaying /\ Completes(trains[i], delta)]_vars

\* on the 2x2 loop a playing train with two cars has its engine in the cell
\* (1,1) entered from the left, where no engine is placed that way, with its
\* last car still in another cell
C39_Witness ==
    /\ grid = LoopGrid
    /\ isPlaying
    /\ \E i \in DOMAIN trains :
          /\ ~trains[i].stopped
          /\ Len(trains[i].segments) = 3
          /\ EnginePlace(trains[i]) = <<1, 1, RIGHT>>
          /\ <<trains[i].segments[3].row, trains[i].segments[3].col>> # <<1, 1>>


----------------------------------------------------------------------------
(* C40 Load keeps train entries separate *)

\* a vertical crossing over (0,1) and (1,1) with an engine on its upper cell
\* and an engine with one car on its lower cell
CrossingPairWorld ==
    WithTrain(WithTrain(placeCrossing(placeTrackPiece(World(initGrid, <<>>, <<>>),
                                                      1, 1, "straight-v"),
                                      0, 1),
                        0, 1, 0),
              1, 1, 1)

\* the strip with an engine on it, and a second train entry, with one car,
\* naming a cell that holds no track
StrayEntryDoc ==
    LET layoutData == exportLayout(WithTrain(World(StripGrid, <<>>, <<>>), 0, 1, 0))
    IN  [layoutData EXCEPT
            !.trains = Append(@, [row |-> 2, col |-> 2, dir |-> LEFT,
                                  enterDir |-> LEFT, cars |-> 1])]

\* the documents handed to loadLayout: exported layouts and the stray entry
ImportDocs == LayoutDocs \cup {exportLayout(CrossingPairWorld), StrayEntryDoc}

Import ==
    \E layoutData \in ImportDocs : Edit(loadLayout(Now, layoutData))

ImportNext ==
    \/ TogglePlay
    \/ Tick
    \/ Import

SpecImport == Init /\ [][ImportNext]_vars

\* the grid once the tracks and crossings of the document are loaded
GridLoaded(layoutData) ==
    loadLayout(Now, [layoutData EXCEPT !.trains = <<>>]).grid

\* the train entries of the document whose cell then holds a track
EntriesOnTrack(layoutData) ==
    LET onTrack(trainData) ==
           IsTrack(GridLoaded(layoutData), trainData.row, trainData.col)
    IN  SelectSeq(layoutData.trains, onTrack)

\* C40: loading a document creates one train for each train entry whose cell
\* holds a track once tracks and crossings are loaded, in the order of the
\* entries, and each train has the cell, dir, enterDir and number of cars of
\* its own entry; an entry on a cell without track creates no train and
\* changes no other train.
C40_EntriesKeptSeparate ==
    [][\A layoutData \in ImportDocs :
          Edit(loadLayout(Now, layoutData)) =>
             /\ Len(trains') = Len(EntriesOnTrack(layoutData))
             /\ \A j \in DOMAIN trains' :
                   LET trainData == EntriesOnTrack(layoutData)[j]
                   IN  /\ Engine(trains'[j]).row = trainData.row
                       /\ Engine(trains'[j]).col = trainData.col
                       /\ Engine(trains'[j]).dir = trainData.dir
                       /\ Engine(trains'[j]).enterDir = trainData.enterDir
                       /\ Len(trains'[j].segments) = 1 + trainData.cars]_vars

====
